---- MODULE Spec2Model ----
(***************************************************************************)
(* simdex: the discovery-and-sync cache engine.                            *)
(*                                                                         *)
(* The model follows the canonical variant of the repository               *)
(* (src/src/api/mod.rs with src/src/core/*.rs): scan walks the discovered  *)
(* collections, lists their entries, compares the container's mtime with   *)
(* the cached watermark, decodes the container and upserts the row, all    *)
(* inside one SQLite transaction that is committed at the end.             *)
(*                                                                         *)
(* The filesystem is the environment: an external writer may replace or    *)
(* remove a result container at any moment, also while a scan runs.  File  *)
(* modification times and chrono::Local::now() are read off one wall clock *)
(* that never runs backwards and may stand still between two operations    *)
(* (timestamp granularity).                                                *)
(***************************************************************************)
EXTENDS Integers, Sequences, FiniteSets, TLC

(***************************************************************************)
(* Bounds of the model.                                                    *)
(***************************************************************************)
\* the wall clock runs over 0..MaxTime
MaxTime == 2
\* number of external modifications of result containers
MaxWrites == 1
\* number of scan runs
MaxScans == 2
\* deepest chain of nested directories below a scanned root
MaxDepth == 6
\* marker files along that chain
MaxMarkers == 2
\* pieces of text in a file name
MaxName == 6
\* members of a collection directory
MaxChildren == 3
\* pieces of text in a uid given to the initializer
MaxUid == 3
\* upserts that filled the cache ls_params reads
MaxRows == 3

(***************************************************************************)
(* Option<T>                                                               *)
(***************************************************************************)
None == [some |-> FALSE, v |-> 0]

Some(x) == [some |-> TRUE, v |-> x]

\* derived PartialOrd of Option<T>: None is below every Some
OptLt(a, b) == IF a.some THEN b.some /\ a.v < b.v ELSE b.some

OptLe(a, b) == IF a.some THEN b.some /\ a.v <= b.v ELSE TRUE

(***************************************************************************)
(* The watermark as TEXT: DateTime<Local>::to_rfc3339 writes the instant   *)
(* (a tick of the wall clock) with its offset; parse_from_rfc3339 followed *)
(* by with_timezone(Local) reads the instant back, and fails on any other  *)
(* text.                                                                   *)
(***************************************************************************)
local_to_rfc3339(t) == <<"rfc3339", t>>

parse_local_rfc3339(s) == IF Len(s) = 2 /\ s[1] = "rfc3339" THEN Some(s[2]) ELSE None

(***************************************************************************)
(* The directory tree below the scanned root: two collection directories,  *)
(* each holding a marker file; d1 has two entry directories, d2 has one    *)
(* with the same name as an entry of d1.                                   *)
(***************************************************************************)
Dirs == {"R/d1", "R/d2"}

Uids == {"A", "B"}

EntryNames == {"run1", "run2"}

\* the entry directories of the tree, as <<collection directory, name>>
EntryDirs == {<<"R/d1", "run1">>, <<"R/d1", "run2">>, <<"R/d2", "run1">>}

(***************************************************************************)
(* The result container (data.h5) as the decoder sees it.  An attribute is *)
(* described by what each typed read of it returns; hdf5's own conversion  *)
(* rules decide that, the decoder only looks at the results.               *)
(***************************************************************************)
NoneS == [some |-> FALSE, v |-> ""]

NoneB == [some |-> FALSE, v |-> FALSE]

AbsentAttr == [present |-> FALSE, i64 |-> NoneS, f64 |-> NoneS, str |-> NoneS, bool |-> NoneB]

StrAttr(s) == [present |-> TRUE, i64 |-> NoneS, f64 |-> NoneS, str |-> Some(s), bool |-> NoneB]

\* an integer attribute also reads as a float
IntAttr(n) == [present |-> TRUE, i64 |-> Some(n), f64 |-> Some(n \o ".0"), str |-> NoneS, bool |-> NoneB]

FloatAttr(x) == [present |-> TRUE, i64 |-> NoneS, f64 |-> Some(x), str |-> NoneS, bool |-> NoneB]

BoolAttr(b) == [present |-> TRUE, i64 |-> NoneS, f64 |-> NoneS, str |-> NoneS, bool |-> Some(b)]

\* an attribute of a type no probe reads (an array, a compound)
OtherAttr == [present |-> TRUE, i64 |-> NoneS, f64 |-> NoneS, str |-> NoneS, bool |-> NoneB]

\* the text of a created_at attribute: a JSON envelope or not
Tagged(type, value) == [json |-> TRUE, type |-> type, value |-> value]

NotJson == [json |-> FALSE, type |-> "", value |-> ""]

NoParams == [k \in {} |-> AbsentAttr]

\* the ".parameters" group: group is FALSE when the group is missing
Container(open, created_at, description, status, submitted, group, attrs) ==
    [open |-> open, created_at |-> created_at, description |-> description,
     status |-> status, submitted |-> submitted, group |-> group, attrs |-> attrs]

Good1 ==
    Container(TRUE, StrAttr(Tagged("datetime", "2024-01-01T00:00:00")),
              StrAttr("first run"), StrAttr("done"), BoolAttr(TRUE), TRUE,
              [k \in {"steps", "dt"} |-> IF k = "steps" THEN IntAttr("100") ELSE StrAttr("fast")])

Good2 ==
    Container(TRUE, StrAttr(Tagged("datetime", "2024-01-01T01:00:00+01:00")),
              StrAttr("second run"), StrAttr("running"), AbsentAttr, TRUE,
              [k \in {"steps"} |-> IntAttr("200")])

\* a container without the required description attribute
Corrupt ==
    Container(TRUE, StrAttr(Tagged("datetime", "2024-01-01T00:00:00")),
              AbsentAttr, StrAttr("done"), BoolAttr(TRUE), TRUE, NoParams)

\* a file that hdf5 cannot open
Unreadable ==
    Container(FALSE, AbsentAttr, AbsentAttr, AbsentAttr, AbsentAttr, FALSE, NoParams)

(***************************************************************************)
(* core/entry.rs: the Attribute Decoder                                    *)
(***************************************************************************)
\* chrono::DateTime::parse_from_rfc3339 on the texts of the model, giving
\* the instant in seconds since the epoch
parse_from_rfc3339(s) ==
    CASE s = "2024-01-01T00:00:00Z" -> Some(1704067200)
      [] s = "2024-01-01T00:00:00+00:00" -> Some(1704067200)
      [] s = "1970-01-01T00:00:00+00:00" -> Some(0)
      [] s = "2025-06-01T12:00:00+00:00" -> Some(1748779200)
      [] s = "2024-01-01T01:00:00+01:00" -> Some(1704067200)
      [] s = "2025-06-01T12:00:00Z" -> Some(1748779200)
      [] OTHER -> None

\* DateTime<Utc>::to_rfc3339
utc_to_rfc3339(dt) ==
    CASE dt = 0 -> "1970-01-01T00:00:00+00:00"
      [] dt = 1704067200 -> "2024-01-01T00:00:00+00:00"
      [] dt = 1748779200 -> "2025-06-01T12:00:00+00:00"
      [] OTHER -> "?"

\* a parser that does not look at the type tag of the envelope
parse_datetime_untagged(val) ==
    IF val.json
    THEN IF parse_from_rfc3339(val.value).some
         THEN parse_from_rfc3339(val.value)
         ELSE parse_from_rfc3339(val.value \o "Z")
    ELSE None

parse_datetime_field(val) ==
    IF val.json /\ val.type = "datetime"
    THEN IF parse_from_rfc3339(val.value).some
         THEN parse_from_rfc3339(val.value)
         ELSE parse_from_rfc3339(val.value \o "Z")
    ELSE None

\* attr(name).ok()?.read_scalar::<VarLenUnicode>().ok()?
ReadStr(a) == IF a.present THEN a.str ELSE NoneS

\* the probes in the order f64, i64, string
ProbeFloatFirst(a) ==
    IF a.f64.some THEN Some([t |-> "float", v |-> a.f64.v])
    ELSE IF a.i64.some THEN Some([t |-> "int", v |-> a.i64.v])
    ELSE IF a.str.some THEN Some([t |-> "str", v |-> a.str.v])
    ELSE [some |-> FALSE, v |-> [t |-> "", v |-> ""]]

\* the first probe that reads the attribute, in the order i64, f64, string
ProbeValue(a) ==
    IF a.i64.some THEN Some([t |-> "int", v |-> a.i64.v])
    ELSE IF a.f64.some THEN Some([t |-> "float", v |-> a.f64.v])
    ELSE IF a.str.some THEN Some([t |-> "str", v |-> a.str.v])
    ELSE [some |-> FALSE, v |-> [t |-> "", v |-> ""]]

NoEntry ==
    [some |-> FALSE,
     meta |-> [created_at |-> 0, description |-> "", status |-> "", submitted |-> FALSE],
     params |-> [k \in {} |-> [t |-> "", v |-> ""]]]

\* a decoder that gives the entry up on an attribute no probe reads
load_entry_meta_strict(c) ==
    IF ~c.open THEN NoEntry
    ELSE IF ~ReadStr(c.created_at).some THEN NoEntry
    ELSE IF ~ReadStr(c.description).some THEN NoEntry
    ELSE IF ~ReadStr(c.status).some THEN NoEntry
    ELSE IF ~c.group THEN NoEntry
    ELSE IF \E k \in DOMAIN c.attrs : ~c.attrs[k].present THEN NoEntry
    ELSE IF \E k \in DOMAIN c.attrs : ~ProbeValue(c.attrs[k]).some THEN NoEntry
    ELSE LET created == parse_datetime_field(ReadStr(c.created_at).v)
         IN [some |-> TRUE,
             meta |-> [created_at |-> IF created.some THEN created.v ELSE 0,
                       description |-> ReadStr(c.description).v,
                       status |-> ReadStr(c.status).v,
                       submitted |-> IF c.submitted.present /\ c.submitted.bool.some
                                     THEN c.submitted.bool.v ELSE FALSE],
             params |-> [k \in DOMAIN c.attrs |-> ProbeValue(c.attrs[k]).v]]

\* a decoder that takes a missing ".parameters" group, or an attribute of it
\* that cannot be opened, for no parameter
load_entry_meta_lenient(c) ==
    IF ~c.open THEN NoEntry
    ELSE IF ~ReadStr(c.created_at).some THEN NoEntry
    ELSE IF ~ReadStr(c.description).some THEN NoEntry
    ELSE IF ~ReadStr(c.status).some THEN NoEntry
    ELSE LET created == parse_datetime_field(ReadStr(c.created_at).v)
             kept == {k \in DOMAIN c.attrs :
                         c.group /\ c.attrs[k].present /\ ProbeValue(c.attrs[k]).some}
         IN [some |-> TRUE,
             meta |-> [created_at |-> IF created.some THEN created.v ELSE 0,
                       description |-> ReadStr(c.description).v,
                       status |-> ReadStr(c.status).v,
                       submitted |-> IF c.submitted.present /\ c.submitted.bool.some
                                     THEN c.submitted.bool.v ELSE FALSE],
             params |-> [k \in kept |-> ProbeValue(c.attrs[k]).v]]

load_entry_meta(c) ==
    IF ~c.open THEN NoEntry
    ELSE IF ~ReadStr(c.created_at).some THEN NoEntry
    ELSE IF ~ReadStr(c.description).some THEN NoEntry
    ELSE IF ~ReadStr(c.status).some THEN NoEntry
    ELSE IF ~c.group THEN NoEntry
    ELSE IF \E k \in DOMAIN c.attrs : ~c.attrs[k].present THEN NoEntry
    ELSE LET created == parse_datetime_field(ReadStr(c.created_at).v)
             kept == {k \in DOMAIN c.attrs : ProbeValue(c.attrs[k]).some}
         IN [some |-> TRUE,
             meta |-> [created_at |-> IF created.some THEN created.v ELSE 0,
                       description |-> ReadStr(c.description).v,
                       status |-> ReadStr(c.status).v,
                       submitted |-> IF c.submitted.present /\ c.submitted.bool.some
                                     THEN c.submitted.bool.v ELSE FALSE],
             params |-> [k \in kept |-> ProbeValue(c.attrs[k]).v]]

(***************************************************************************)
(* serde_json: the parameter mapping as the text of the parameters_json    *)
(* column.  The mapping is a HashMap, so the members of the JSON object    *)
(* come in an arbitrary order; the text is the sequence of its members.    *)
(***************************************************************************)
JsonTexts(params) ==
    {s \in [1..Cardinality(DOMAIN params) -> {<<k, params[k]>> : k \in DOMAIN params}] :
        \A i, j \in DOMAIN s : i # j => s[i] # s[j]}

\* serde_json::from_str(..).as_object(): the mapping a text stands for
JsonObject(text) ==
    [k \in {text[i][1] : i \in DOMAIN text} |->
        (CHOOSE m \in {text[i] : i \in DOMAIN text} : m[1] = k)[2]]

(***************************************************************************)
(* core/db.rs: the Sync Cache.  A store is its two tables, rows in rowid   *)
(* order, and the AUTOINCREMENT counter of simulations.                    *)
(***************************************************************************)
EmptyStore == [tables |-> FALSE, collections |-> <<>>, simulations |-> <<>>, seq |-> 0]

\* CREATE TABLE without IF NOT EXISTS after a DROP: the tables start empty
open_or_init_fresh(store) == [tables |-> TRUE, collections |-> <<>>, simulations |-> <<>>, seq |-> 0]

\* CREATE TABLE IF NOT EXISTS, twice
open_or_init(store) == [store EXCEPT !.tables = TRUE]

IsKey(row, uid, name) == row.collection_uid = uid /\ row.name = name

HasRow(store, uid, name) ==
    \E i \in DOMAIN store.simulations : IsKey(store.simulations[i], uid, name)

RowOf(store, uid, name) ==
    store.simulations[CHOOSE i \in DOMAIN store.simulations :
                          IsKey(store.simulations[i], uid, name)]

\* INSERT OR IGNORE INTO collections: the row of a known uid keeps its path
upsert_collection_ignore(store, uid, path) ==
    IF \E i \in DOMAIN store.collections : store.collections[i].uid = uid
    THEN store
    ELSE [store EXCEPT !.collections = Append(store.collections, [uid |-> uid, path |-> path])]

\* UPDATE collections SET path WHERE uid: a uid without a row gets none
upsert_collection_update(store, uid, path) ==
    [store EXCEPT !.collections =
        [i \in DOMAIN store.collections |->
            IF store.collections[i].uid = uid THEN [uid |-> uid, path |-> path]
            ELSE store.collections[i]]]

\* INSERT OR REPLACE with a cascading foreign key on simulations: deleting the
\* row of the uid deletes the rows of its entries
upsert_collection_cascade(store, uid, path) ==
    LET others == SelectSeq(store.collections, LAMBDA r : r.uid # uid)
        known == \E i \in DOMAIN store.collections : store.collections[i].uid = uid
    IN [store EXCEPT !.collections = Append(others, [uid |-> uid, path |-> path]),
                     !.simulations =
                         IF known THEN SelectSeq(@, LAMBDA r : r.collection_uid # uid) ELSE @]

\* INSERT OR REPLACE INTO collections: the row of that uid is deleted and
\* the new row inserted
upsert_collection(store, uid, path) ==
    LET others == SelectSeq(store.collections, LAMBDA r : r.uid # uid)
    IN [store EXCEPT !.collections = Append(others, [uid |-> uid, path |-> path])]

get_sim_sync_time(store, uid, name) ==
    IF HasRow(store, uid, name)
    THEN parse_local_rfc3339(RowOf(store, uid, name).last_sync_time)
    ELSE None

\* a plain INSERT, as if the table had no UNIQUE(collection_uid, name)
upsert_simulation_insert(store, uid, name, meta, parameters_json, now_) ==
    [store EXCEPT !.simulations =
                      Append(store.simulations,
                             [id |-> store.seq + 1, collection_uid |-> uid, name |-> name,
                              created_at |-> utc_to_rfc3339(meta.created_at),
                              description |-> meta.description,
                              status |-> meta.status,
                              submitted |-> IF meta.submitted THEN 1 ELSE 0,
                              parameters_json |-> parameters_json,
                              last_sync_time |-> local_to_rfc3339(now_)]),
                  !.seq = store.seq + 1]

\* an upsert whose DO UPDATE SET leaves _last_sync_time out
upsert_simulation_stale(store, uid, name, meta, parameters_json, now_) ==
    LET fields(id, at) ==
            [id |-> id, collection_uid |-> uid, name |-> name,
             created_at |-> utc_to_rfc3339(meta.created_at),
             description |-> meta.description,
             status |-> meta.status,
             submitted |-> IF meta.submitted THEN 1 ELSE 0,
             parameters_json |-> parameters_json,
             last_sync_time |-> at]
    IN IF HasRow(store, uid, name)
       THEN [store EXCEPT !.simulations =
                [i \in DOMAIN store.simulations |->
                    IF IsKey(store.simulations[i], uid, name)
                    THEN fields(store.simulations[i].id, store.simulations[i].last_sync_time)
                    ELSE store.simulations[i]]]
       ELSE [store EXCEPT !.simulations =
                              Append(store.simulations,
                                     fields(store.seq + 1, local_to_rfc3339(now_))),
                          !.seq = store.seq + 1]

\* an upsert whose DO UPDATE SET leaves parameters_json out
upsert_simulation_keep(store, uid, name, meta, parameters_json, now_) ==
    LET fields(id, json) ==
            [id |-> id, collection_uid |-> uid, name |-> name,
             created_at |-> utc_to_rfc3339(meta.created_at),
             description |-> meta.description,
             status |-> meta.status,
             submitted |-> IF meta.submitted THEN 1 ELSE 0,
             parameters_json |-> json,
             last_sync_time |-> local_to_rfc3339(now_)]
    IN IF HasRow(store, uid, name)
       THEN [store EXCEPT !.simulations =
                [i \in DOMAIN store.simulations |->
                    IF IsKey(store.simulations[i], uid, name)
                    THEN fields(store.simulations[i].id, store.simulations[i].parameters_json)
                    ELSE store.simulations[i]]]
       ELSE [store EXCEPT !.simulations =
                              Append(store.simulations, fields(store.seq + 1, parameters_json)),
                          !.seq = store.seq + 1]

\* INSERT OR REPLACE INTO simulations: the row of the key is deleted and a
\* new row, with a new id, inserted
upsert_simulation_replace(store, uid, name, meta, parameters_json, now_) ==
    [store EXCEPT !.simulations =
                      Append(SelectSeq(store.simulations, LAMBDA r : ~IsKey(r, uid, name)),
                             [id |-> store.seq + 1, collection_uid |-> uid, name |-> name,
                              created_at |-> utc_to_rfc3339(meta.created_at),
                              description |-> meta.description,
                              status |-> meta.status,
                              submitted |-> IF meta.submitted THEN 1 ELSE 0,
                              parameters_json |-> parameters_json,
                              last_sync_time |-> local_to_rfc3339(now_)]),
                  !.seq = store.seq + 1]

\* INSERT ... ON CONFLICT(collection_uid, name) DO UPDATE SET ...
upsert_simulation(store, uid, name, meta, parameters_json, now_) ==
    LET fields(id) ==
            [id |-> id, collection_uid |-> uid, name |-> name,
             created_at |-> utc_to_rfc3339(meta.created_at),
             description |-> meta.description,
             status |-> meta.status,
             submitted |-> IF meta.submitted THEN 1 ELSE 0,
             parameters_json |-> parameters_json,
             last_sync_time |-> local_to_rfc3339(now_)]
    IN IF HasRow(store, uid, name)
       THEN [store EXCEPT !.simulations =
                [i \in DOMAIN store.simulations |->
                    IF IsKey(store.simulations[i], uid, name)
                    THEN fields(store.simulations[i].id)
                    ELSE store.simulations[i]]]
       ELSE [store EXCEPT !.simulations = Append(store.simulations, fields(store.seq + 1)),
                          !.seq = store.seq + 1]

\* SELECT id FROM simulations WHERE collection_uid = ?1 AND name = ?2
SelectId(store, uid, name) == RowOf(store, uid, name).id

(***************************************************************************)
(* The directory tree as the scanners and the initializer see it: a node   *)
(* is a path below the root (a sequence of names), a name is a sequence of *)
(* pieces of text.                                                         *)
(***************************************************************************)
NoTree == [p \in {} |-> [kind |-> "", text |-> <<>>]]

NoResult == [path |-> <<>>, uid |-> <<>>, ret |-> "none", before |-> NoTree]

(***************************************************************************)
(* The state                                                               *)
(***************************************************************************)
VARIABLES
    now,            \* the wall clock: its latest reading
    uidOf,          \* the uid in the marker file name of each collection directory
    fs,             \* the result container of each entry directory
    writes,         \* external modifications so far
    db,             \* the cache file: what is durable
    tx,             \* the store as seen inside the open transaction
    pc,             \* where scan stands
    scans,          \* scan runs started so far
    collections,    \* scan: the pairs find_all returned
    ci,             \* scan: index of the current collection
    entries,        \* scan: the entry directories find_entries returned
    ei,             \* scan: index of the current entry
    last_sync_time, \* scan: the watermark read for the current entry
    mtime,          \* scan: the mtime read for the current entry
    decoded,        \* scan: what load_entry_meta returned for the current entry
    log,            \* history: what the last run did per entry, with the data it wrote
    fault,          \* the store error or termination that hit this run, if any
    dbAtStart,      \* history: the cache when this run opened its transaction
    undone,         \* history: the run ended with writes that were never committed
    changed,        \* history: cached entries whose mtime rose since the last run
    dirty,          \* history: the filesystem changed since this run started
    stable,         \* history: committed runs in a row without any change
    baseline,       \* history: the row contents after the first of those runs
    tree,           \* the directory tree a scanner or the initializer works on
    todo,           \* scanner: the directory entries its iterator still has to yield
    pairs,          \* find_all: the (directory, uid) pairs collected so far
    found,          \* find_entries: the entry directories collected so far
    result,         \* new_collection: its arguments and what it returned
    errlog,         \* scanner: the nodes it reported on stderr and skipped
    wpc             \* where the scanner or the initializer stands

vars ==
    <<now, uidOf, fs, writes, db, tx, pc, scans, collections, ci, entries, ei,
      last_sync_time, mtime, decoded, log, fault, dbAtStart, undone, changed, dirty,
      stable, baseline, tree, todo, pairs, found, result, errlog, wpc>>

\* the state of discovery and initialisation, which scan does not touch
toolVars == <<tree, todo, pairs, found, result, errlog, wpc>>

\* the state of scan and of its environment, which the tools do not touch
syncVars ==
    <<now, uidOf, fs, writes, db, tx, pc, scans, collections, ci, entries, ei,
      last_sync_time, mtime, decoded, log, fault, dbAtStart, undone, changed, dirty,
      stable, baseline>>

scanVars == <<collections, ci, entries, ei, last_sync_time, mtime, decoded>>

envVars == <<now, uidOf, fs, writes>>

histVars == <<dbAtStart, undone, changed, dirty, stable, baseline>>

Running == {"collection", "entry", "decode", "upsert", "commit"}

(***************************************************************************)
(* The filesystem as the scanners read it                                  *)
(***************************************************************************)
\* the order in which the directory walk and read_dir yield their entries
DirOrder == <<"R/d1", "R/d2">>

NameOrder == <<"run1", "run2">>

\* a scanner that yields a uid once, for the first marker that declares it
find_all_unique(uids) ==
    SelectSeq([i \in DOMAIN DirOrder |-> <<DirOrder[i], uids[DirOrder[i]]>>],
              LAMBDA p : \A j \in DOMAIN DirOrder :
                            (uids[DirOrder[j]] = p[2] /\ DirOrder[j] # p[1]) =>
                                \E k \in DOMAIN DirOrder : k < j /\ DirOrder[k] = p[1])

\* core/discovery.rs: one pair per marker file, in walk order
find_all(uids) == [i \in DOMAIN DirOrder |-> <<DirOrder[i], uids[DirOrder[i]]>>]

\* core/collection.rs: the child directories that hold a data.h5
find_entries(files, path) ==
    LET all == [i \in DOMAIN NameOrder |-> <<path, NameOrder[i]>>]
    IN SelectSeq(all, LAMBDA e : e \in EntryDirs /\ files[e].exists)

\* a reader of the mtime that never gets one
no_mtime(file) == None

\* core/entry.rs: None when the metadata of data.h5 cannot be read
get_data_h5_mtime(file) == IF file.exists THEN Some(file.mtime) ELSE None

\* a container opened for writing: closing it stamps the file
FileOpenRw(file) == IF file.exists THEN [file EXCEPT !.mtime = @ + 1] ELSE file

\* hdf5::File::open opens the container read-only: the file stays as it is
FileOpen(file) == file

\* File::open on the path of the container, then the decoder
ReadEntry(file) == IF file.exists THEN load_entry_meta(file.content) ELSE NoEntry

(***************************************************************************)
(* api/mod.rs scan: the pieces of the loop                                 *)
(***************************************************************************)
\* the comparison with "<=" in place of "<"
IsUnchangedOrEqual(mtime_, last_) == OptLe(mtime_, last_)

\* the comparison that takes an absent watermark for an up-to-date one
IsUnchangedOrNew(mtime_, last_) == ~last_.some \/ OptLt(mtime_, last_)

\* "if Some(mtime) < last_sync_time { continue }"
IsUnchanged(mtime_, last_) == OptLt(mtime_, last_)

\* autocommit: a write through the connection is durable at once
WriteThrough(store, t) == t

\* a write through the transaction changes nothing durable
DurableInTx(store, t) == store

\* the writes of a dropped transaction stay in the file
KeepWrites(store, t) == t

\* dropping the transaction without commit (panic, termination) rolls it back
Rollback(store, t) == store

\* the row content that is compared across runs: everything but the watermark
Content(row) ==
    [created_at |-> row.created_at, description |-> row.description,
     status |-> row.status, submitted |-> row.submitted,
     parameters |-> JsonObject(row.parameters_json)]

Keys(store) ==
    {<<store.simulations[i].collection_uid, store.simulations[i].name>> :
        i \in DOMAIN store.simulations}

Contents(store) == [k \in Keys(store) |-> Content(RowOf(store, k[1], k[2]))]

CurUid == collections[ci][2]

CurEntry == entries[ei]

\* a loop that goes to the commit after the entries of one collection
AdvanceOneCollection(c, es, e) ==
    IF e < Len(es) THEN [pc |-> "entry", ci |-> c, ei |-> e + 1]
    ELSE [pc |-> "commit", ci |-> c, ei |-> 0]

\* the loop control after an entry (or an empty listing) is done
Advance(c, es, e) ==
    IF e < Len(es) THEN [pc |-> "entry", ci |-> c, ei |-> e + 1]
    ELSE IF c < Len(collections) THEN [pc |-> "collection", ci |-> c + 1, ei |-> 0]
    ELSE [pc |-> "commit", ci |-> c, ei |-> 0]

\* "break" in place of "continue": the rest of the collection is left out
BreakLoop(c, es, e) ==
    IF c < Len(collections) THEN [pc |-> "collection", ci |-> c + 1, ei |-> 0]
    ELSE [pc |-> "commit", ci |-> c, ei |-> 0]

\* "continue" of the entry loop: on with the next entry
Continue(c, es, e) == Advance(c, es, e)

\* one line of the history of a run: an entry directory was listed by
\* find_entries ("listed"), or the loop finished with it
Item(e, uid, what, m, wm, data, id) ==
    [dir |-> e[1], uid |-> uid, name |-> e[2], outcome |-> what,
     mtime |-> m, watermark |-> wm, data |-> data, id |-> id]

Logged(what, m, wm, data, id) == Append(log, Item(CurEntry, CurUid, what, m, wm, data, id))

Listed(es, uid) == [i \in DOMAIN es |-> Item(es[i], uid, "listed", None, None, NoEntry, 0)]

\* the locals of scan, before the run and after it
Cleared ==
    /\ collections' = <<>>
    /\ ci' = 0
    /\ entries' = <<>>
    /\ ei' = 0
    /\ last_sync_time' = None
    /\ mtime' = None
    /\ decoded' = NoEntry

(***************************************************************************)
(* Initial state: the cache file does not exist; every entry directory     *)
(* holds a container written at tick 0; d2's marker names the uid of d1 or *)
(* another one.                                                            *)
(***************************************************************************)
InitContents(e) == IF e = <<"R/d1", "run1">> THEN {Good1, Corrupt} ELSE {Good2}

WrittenContents == {Good1, Good2, Corrupt}

InitSync ==
    /\ now = 0
    /\ uidOf \in {u \in [Dirs -> Uids] : u["R/d1"] = "A"}
    /\ fs \in {f \in [EntryDirs -> {[exists |-> TRUE, mtime |-> 0, content |-> c] :
                                      c \in {Good1, Good2, Corrupt}}] :
                \A e \in EntryDirs : f[e].content \in InitContents(e)}
    /\ writes = 0
    /\ db = EmptyStore
    /\ tx = EmptyStore
    /\ pc = "idle"
    /\ scans = 0
    /\ collections = <<>>
    /\ ci = 0
    /\ entries = <<>>
    /\ ei = 0
    /\ last_sync_time = None
    /\ mtime = None
    /\ decoded = NoEntry
    /\ log = <<>>
    /\ fault = "none"
    /\ dbAtStart = EmptyStore
    /\ undone = FALSE
    /\ changed = {}
    /\ dirty = FALSE
    /\ stable = 0
    /\ baseline = Contents(EmptyStore)

\* no scanner and no initializer at work
ToolsOff ==
    /\ tree = NoTree
    /\ todo = <<>>
    /\ pairs = <<>>
    /\ found = <<>>
    /\ result = NoResult
    /\ errlog = <<>>
    /\ wpc = "off"

Init == InitSync /\ ToolsOff

(***************************************************************************)
(* The environment                                                         *)
(***************************************************************************)
\* the readings the wall clock may give next: it never runs backwards
Clock == now..MaxTime

\* an external writer replaces (or rewrites, or touches) a container
WriteContainer(e, c, t) ==
    /\ writes < MaxWrites
    /\ now' = t
    /\ fs' = [fs EXCEPT ![e] = [exists |-> TRUE, mtime |-> t, content |-> c]]
    /\ changed' = IF /\ pc \notin Running
                     /\ fs[e].exists /\ t > fs[e].mtime
                     /\ HasRow(db, uidOf[e[1]], e[2])
                  THEN changed \cup {e} ELSE changed
    /\ writes' = writes + 1
    /\ dirty' = TRUE
    /\ stable' = 0
    /\ UNCHANGED <<toolVars, uidOf, db, tx, pc, scans, scanVars, log, fault, dbAtStart, undone,
                   baseline>>

\* an external writer removes a container
RemoveContainer(e) ==
    /\ writes < MaxWrites
    /\ fs[e].exists
    /\ fs' = [fs EXCEPT ![e] = [exists |-> FALSE, mtime |-> 0, content |-> Unreadable]]
    /\ changed' = changed \ {e}
    /\ writes' = writes + 1
    /\ dirty' = TRUE
    /\ stable' = 0
    /\ UNCHANGED <<toolVars, now, uidOf, db, tx, pc, scans, scanVars, log, fault, dbAtStart, undone,
                   baseline>>

(***************************************************************************)
(* api/mod.rs scan, step by step                                           *)
(***************************************************************************)
\* open_or_init(..).expect(..), find_all, conn.transaction().unwrap()
ScanStart(r) ==
    /\ pc \in {"idle", "done", "aborted"}
    /\ scans < MaxScans
    /\ scans' = scans + 1
    /\ fault' = IF r = "ok" THEN "none" ELSE r
    /\ db' = IF r = "open" THEN db ELSE open_or_init(db)
    /\ tx' = db'
    /\ collections' = IF r = "ok" THEN find_all(uidOf) ELSE <<>>
    /\ pc' = IF r # "ok" THEN "aborted"
             ELSE IF Len(collections') = 0 THEN "commit" ELSE "collection"
    /\ ci' = IF r = "ok" THEN 1 ELSE 0
    /\ entries' = <<>>
    /\ ei' = 0
    /\ last_sync_time' = None
    /\ mtime' = None
    /\ decoded' = NoEntry
    /\ log' = <<>>
    /\ dbAtStart' = db'
    /\ undone' = FALSE
    /\ changed' = IF r = "ok" THEN changed ELSE {}
    /\ dirty' = FALSE
    /\ stable' = IF r = "ok" THEN stable ELSE 0
    /\ UNCHANGED <<toolVars, envVars, baseline>>

\* a store error makes expect() panic: the transaction is dropped
Abort(why) ==
    /\ pc' = "aborted"
    /\ fault' = why
    /\ db' = Rollback(db, tx)
    /\ tx' = db'
    /\ stable' = 0
    /\ undone' = (tx # db)
    /\ Cleared
    /\ log' = <<>>
    /\ changed' = {}
    /\ UNCHANGED <<toolVars, envVars, scans, dbAtStart, dirty, baseline>>

\* upsert_collection(..).expect("db err") and find_entries
ScanCollection(ok) ==
    /\ pc = "collection"
    /\ IF ok
       THEN /\ tx' = upsert_collection(tx, CurUid, collections[ci][1])
            /\ db' = DurableInTx(db, tx')
            /\ entries' = find_entries(fs, collections[ci][1])
            /\ log' = log \o Listed(entries', CurUid)
            /\ LET adv == Advance(ci, entries', 0)
               IN pc' = adv.pc /\ ci' = adv.ci /\ ei' = adv.ei
            /\ UNCHANGED <<toolVars, envVars, scans, collections, last_sync_time, mtime, decoded,
                           fault, histVars>>
       ELSE Abort("collection")

\* get_sim_sync_time, get_data_h5_mtime and the comparison
ScanEntry ==
    /\ pc = "entry"
    /\ last_sync_time' = get_sim_sync_time(tx, CurUid, CurEntry[2])
    /\ mtime' = get_data_h5_mtime(fs[CurEntry])
    /\ IF ~mtime'.some \/ IsUnchanged(mtime', last_sync_time')
       THEN /\ log' = Logged(IF mtime'.some THEN "skipped" ELSE "nomtime",
                              mtime', last_sync_time', NoEntry, 0)
            /\ LET adv == Continue(ci, entries, ei)
               IN pc' = adv.pc /\ ci' = adv.ci /\ ei' = adv.ei
       ELSE /\ pc' = "decode"
            /\ UNCHANGED <<ci, ei, log>>
    /\ UNCHANGED <<toolVars, envVars, db, tx, scans, collections, entries, decoded, fault, histVars>>

\* load_entry_meta
ScanDecode ==
    /\ pc = "decode"
    /\ decoded' = ReadEntry(fs[CurEntry])
    /\ fs' = [fs EXCEPT ![CurEntry] = FileOpen(@)]
    /\ IF decoded'.some
       THEN /\ pc' = "upsert"
            /\ UNCHANGED <<ci, ei, log>>
       ELSE /\ log' = Logged("failed", mtime, last_sync_time, NoEntry, 0)
            /\ LET adv == Continue(ci, entries, ei)
               IN pc' = adv.pc /\ ci' = adv.ci /\ ei' = adv.ei
    /\ UNCHANGED <<toolVars, now, uidOf, writes, db, tx, scans, collections, entries, last_sync_time, mtime,
                   fault, histVars>>

\* upsert_simulation(..).expect("db insert sim")
ScanUpsert(ok, t) ==
    /\ pc = "upsert"
    /\ IF ok
       THEN /\ now' = t
            /\ \E text \in JsonTexts(decoded.params) :
                  tx' = upsert_simulation(tx, CurUid, CurEntry[2], decoded.meta, text, t)
            /\ db' = DurableInTx(db, tx')
            /\ log' = Logged("synced", mtime, last_sync_time, decoded,
                              SelectId(tx', CurUid, CurEntry[2]))
            /\ LET adv == Advance(ci, entries, ei)
               IN pc' = adv.pc /\ ci' = adv.ci /\ ei' = adv.ei
            /\ UNCHANGED <<toolVars, uidOf, fs, writes, scans, collections, entries, last_sync_time,
                           mtime, decoded, fault, histVars>>
       ELSE t = now /\ Abort("entry")

\* tx.commit().ok() and "Sync complete."
ScanCommit(ok) ==
    /\ pc = "commit"
    /\ db' = IF ok THEN tx ELSE Rollback(db, tx)
    /\ tx' = db'
    /\ pc' = "done"
    /\ fault' = IF ok THEN fault ELSE "commit"
    /\ stable' = IF ok /\ ~dirty THEN stable + 1 ELSE 0
    /\ baseline' = IF ok /\ ~dirty /\ stable = 0 THEN Contents(tx) ELSE baseline
    /\ undone' = (~ok /\ tx # db)
    /\ Cleared
    /\ changed' = {}
    /\ UNCHANGED <<toolVars, envVars, scans, log, dbAtStart, dirty>>

\* the process is terminated while scan runs
Terminate ==
    /\ pc \in Running
    /\ Abort("killed")

Next ==
    \/ \E e \in EntryDirs, c \in WrittenContents, t \in Clock : WriteContainer(e, c, t)
    \/ \E e \in EntryDirs : RemoveContainer(e)
    \/ \E r \in {"ok", "open", "begin"} : ScanStart(r)
    \/ \E ok \in BOOLEAN : ScanCollection(ok)
    \/ ScanEntry
    \/ ScanDecode
    \/ \E ok \in BOOLEAN, t \in Clock : ScanUpsert(ok, t)
    \/ \E ok \in BOOLEAN : ScanCommit(ok)
    \/ Terminate

Spec == Init /\ [][Next]_vars

\* scan is one sequential thread: unless a store call fails or the process
\* is terminated, the statement it stands at is executed
ScanRun ==
    \/ ScanCollection(TRUE)
    \/ ScanEntry
    \/ ScanDecode
    \/ \E t \in Clock : ScanUpsert(TRUE, t)
    \/ ScanCommit(TRUE)

SpecLive == Init /\ [][Next]_vars /\ WF_vars(ScanRun)

(***************************************************************************)
(* File names.  A name is a sequence of pieces of text; the marker prefix  *)
(* is one piece, the extension ".yml" the two pieces "." and "yml".        *)
(***************************************************************************)
\* config::META_FILE_PREFIX
META_FILE_PREFIX == <<".bamboost-collection-">>

YmlSuffix == <<".", "yml">>

\* a piece of a name that is not valid UTF-8
NotUtf8 == "\\xff"

NoneT == [some |-> FALSE, v |-> <<>>]

\* str::strip_prefix
strip_prefix(name, prefix) ==
    IF Len(name) >= Len(prefix) /\ SubSeq(name, 1, Len(prefix)) = prefix
    THEN Some(SubSeq(name, Len(prefix) + 1, Len(name)))
    ELSE NoneT

\* str::strip_suffix
strip_suffix(name, suffix) ==
    IF Len(name) >= Len(suffix)
       /\ SubSeq(name, Len(name) - Len(suffix) + 1, Len(name)) = suffix
    THEN Some(SubSeq(name, 1, Len(name) - Len(suffix)))
    ELSE NoneT

\* OsStr::to_str
to_str(name) == IF \E i \in DOMAIN name : name[i] = NotUtf8 THEN NoneT ELSE Some(name)

\* find_all, the closure: to_str()?, strip_prefix(..)?, strip_suffix(".yml").unwrap_or
marker_uid(name) ==
    IF ~to_str(name).some THEN NoneT
    ELSE LET uid_raw == strip_prefix(to_str(name).v, META_FILE_PREFIX)
         IN IF ~uid_raw.some THEN NoneT
            ELSE LET cut == strip_suffix(uid_raw.v, YmlSuffix)
                 IN Some(IF cut.some THEN cut.v ELSE uid_raw.v)

(***************************************************************************)
(* The trees the scanners are run on.  A node has a kind: "file", "dir",   *)
(* "locked" (a directory whose read_dir fails), "link" (a symbolic link),  *)
(* "bad" (an entry the directory iterator fails on).                       *)
(***************************************************************************)
Node(kind, text) == [kind |-> kind, text |-> text]

Parent(p) == SubSeq(p, 1, Len(p) - 1)

FileName(p) == p[Len(p)]

Children(t, p) == {q \in DOMAIN t : Len(q) = Len(p) + 1 /\ Parent(q) = p}

\* the order in which read_dir yields the members of a directory
SeqOf(S) == CHOOSE q \in [1..Cardinality(S) -> S] : {q[i] : i \in DOMAIN q} = S

Sub == <<"sub">>

Side == <<"side">>

Notes == <<"notes", ".", "txt">>

MarkerX == META_FILE_PREFIX \o <<"X">> \o YmlSuffix

MarkerY == META_FILE_PREFIX \o <<"Y">>

Chain(n) == [i \in 1..n |-> Sub]

\* a chain of d nested directories with marker files in the levels of M, the
\* lowest of them of kind odd; level lock is unreadable; beside the chain a
\* plain file and, unless side is "none", a node of that kind holding a marker
ChainTree(d, M, lock, side, odd) ==
    LET levels == M \cap 0..d
        markers == {Append(Chain(l), MarkerX) : l \in levels}
        first == Append(Chain(CHOOSE l \in levels : \A k \in levels : l <= k), MarkerX)
        beside == IF side = "none" THEN {}
                  ELSE IF side \in {"dir", "locked"} THEN {<<Side>>, <<Side, MarkerY>>}
                  ELSE {<<Side>>}
        nodes == {Chain(i) : i \in 0..d} \cup markers \cup {<<Notes>>} \cup beside
    IN [p \in nodes |->
          IF p \in markers THEN Node(IF p = first THEN odd ELSE "file", <<>>)
          ELSE IF p = <<Side>> THEN Node(side, <<>>)
          ELSE IF p \in {<<Notes>>, <<Side, MarkerY>>} THEN Node("file", <<>>)
          ELSE Node(IF Len(p) = lock THEN "locked" ELSE "dir", <<>>)]

ChainTrees ==
    {ChainTree(d, M, lock, side, odd) :
        d \in 0..MaxDepth, M \in {m \in SUBSET (0..MaxDepth) : Cardinality(m) <= MaxMarkers},
        lock \in -1..MaxDepth, side \in {"none", "dir", "locked", "bad"},
        odd \in {"file", "dir", "link"}}

Pieces == {META_FILE_PREFIX[1], "X", ".", "yml"}

Names ==
    UNION {[1..n -> Pieces] : n \in 1..MaxName} \cup {META_FILE_PREFIX \o <<NotUtf8>>}

\* a root that holds one file, of any name and content
SingleFile(name, text) ==
    [p \in {<<>>, <<name>>} |-> IF p = <<>> THEN Node("dir", <<>>) ELSE Node("file", text)]

SingleFiles == {SingleFile(n, text) : n \in Names, text \in {<<>>, <<"uid: Z">>}}

(***************************************************************************)
(* core/discovery.rs find_all: WalkDir over the root, entry by entry, and  *)
(* the closure of filter_map on every entry it yields.                     *)
(***************************************************************************)
min_depth == 1

max_depth_six == 5 + 1

max_depth == 5

\* the walk ends at the first entry it cannot read
StopAtError(rest) == <<>>

\* "return None" of the closure on an Err: the iterator goes on
SkipError(rest) == rest

Reported(p) == Append(errlog, [path |-> p, seen |-> Len(pairs)])

InitWalk ==
    /\ InitSync
    /\ uidOf = [d \in Dirs |-> "A"]
    /\ fs[<<"R/d1", "run1">>].content = Good1
    /\ tree \in ChainTrees \cup SingleFiles
    /\ todo = << <<>> >>
    /\ pairs = <<>>
    /\ found = <<>>
    /\ result = NoResult
    /\ errlog = <<>>
    /\ wpc = "walk"

\* the iterator fails on the entry: the closure reports it and yields nothing
WalkError ==
    /\ wpc = "walk"
    /\ todo # <<>>
    /\ tree[Head(todo)].kind = "bad"
    /\ errlog' = Reported(Head(todo))
    /\ todo' = SkipError(Tail(todo))
    /\ UNCHANGED <<syncVars, tree, pairs, found, result, wpc>>

\* a file or a symbolic link: a pair when it is a regular file with the prefix
WalkFile ==
    /\ wpc = "walk"
    /\ todo # <<>>
    /\ tree[Head(todo)].kind \in {"file", "link"}
    /\ LET p == Head(todo)
           uid == marker_uid(FileName(p))
       IN pairs' = IF /\ Len(p) >= min_depth
                      /\ tree[p].kind = "file"
                      /\ uid.some
                   THEN Append(pairs, <<Parent(p), uid.v>>)
                   ELSE pairs
    /\ todo' = Tail(todo)
    /\ UNCHANGED <<syncVars, tree, found, result, errlog, wpc>>

\* a directory: no pair; above max_depth its members come next, or the error
\* of reading it
WalkDirectory ==
    /\ wpc = "walk"
    /\ todo # <<>>
    /\ tree[Head(todo)].kind \in {"dir", "locked"}
    /\ LET p == Head(todo)
       IN IF Len(p) >= max_depth
          THEN todo' = Tail(todo) /\ errlog' = errlog
          ELSE IF tree[p].kind = "locked"
          THEN todo' = SkipError(Tail(todo)) /\ errlog' = Reported(p)
          ELSE todo' = SeqOf(Children(tree, p)) \o Tail(todo) /\ errlog' = errlog
    /\ UNCHANGED <<syncVars, tree, pairs, found, result, wpc>>

\* collect()
WalkEnd ==
    /\ wpc = "walk"
    /\ todo = <<>>
    /\ wpc' = "done"
    /\ UNCHANGED <<syncVars, tree, todo, pairs, found, result, errlog>>

NextWalk == WalkError \/ WalkFile \/ WalkDirectory \/ WalkEnd

SpecWalk == InitWalk /\ [][NextWalk]_vars

(***************************************************************************)
(* core/collection.rs find_entries: read_dir of the collection directory,  *)
(* member by member through the filters.  A member is of kind "file",      *)
(* "dir", "link" (a symbolic link, here to a directory), "bad" (read_dir   *)
(* fails on it) or "nostat" (its file_type cannot be read).                *)
(***************************************************************************)
DataH5 == <<"data", ".", "h5">>

RunName(i) == <<"run", ToString(i)>>

\* Path::exists: false for a missing node and for a link that leads nowhere
Exists(t, p) == p \in DOMAIN t /\ t[p].kind \in {"file", "dir"}

\* every member that is a directory is taken for an entry
AnyDirectory(t, p) == TRUE

\* e.path().join("data.h5").exists()
HasContainer(t, p) == Exists(t, Append(p, DataH5))

\* what a member of the collection directory may be
Shapes == {"none", "file", "link", "bad", "nostat", "empty", "entry", "dangling", "deep"}

\* the nodes of the member of that name and shape
Member(name, shape) ==
    LET p == <<name>>
    IN CASE shape = "none" -> NoTree
         [] shape \in {"file", "link", "bad", "nostat"} -> (p :> Node(shape, <<>>))
         [] shape = "empty" -> (p :> Node("dir", <<>>))
         [] shape = "entry" ->
                (p :> Node("dir", <<>>)) @@ (Append(p, DataH5) :> Node("file", <<>>))
         [] shape = "dangling" ->
                (p :> Node("dir", <<>>)) @@ (Append(p, DataH5) :> Node("link", <<>>))
         [] shape = "deep" ->
                (p :> Node("dir", <<>>)) @@ (Append(p, Sub) :> Node("dir", <<>>))
                    @@ (<<name, Sub, DataH5>> :> Node("file", <<>>))

RECURSIVE Members(_, _)
Members(shapes, n) ==
    IF n = 0 THEN NoTree ELSE Member(RunName(n), shapes[n]) @@ Members(shapes, n - 1)

EntryTrees ==
    {(<<>> :> Node(root, <<>>)) @@ Members(shapes, MaxChildren) :
        root \in {"dir", "locked"}, shapes \in [1..MaxChildren -> Shapes]}

InitEntries ==
    /\ InitSync
    /\ uidOf = [d \in Dirs |-> "A"]
    /\ fs[<<"R/d1", "run1">>].content = Good1
    /\ tree \in EntryTrees
    /\ todo = <<>>
    /\ pairs = <<>>
    /\ found = <<>>
    /\ result = NoResult
    /\ errlog = <<>>
    /\ wpc = "list"

\* fs::read_dir(collection_path): an error gives the empty result
ListDirectory ==
    /\ wpc = "list"
    /\ IF tree[<<>>].kind = "dir"
       THEN /\ todo' = SeqOf(Children(tree, <<>>))
            /\ wpc' = "filter"
            /\ errlog' = errlog
       ELSE /\ todo' = <<>>
            /\ wpc' = "done"
            /\ errlog' = Reported(<<>>)
    /\ UNCHANGED <<syncVars, tree, pairs, found, result>>

\* the first filter_map: the iterator fails on the member
EntryError ==
    /\ wpc = "filter"
    /\ todo # <<>>
    /\ tree[Head(todo)].kind = "bad"
    /\ errlog' = Reported(Head(todo))
    /\ todo' = SkipError(Tail(todo))
    /\ UNCHANGED <<syncVars, tree, pairs, found, result, wpc>>

\* the second filter_map: file_type() fails
EntryNoType ==
    /\ wpc = "filter"
    /\ todo # <<>>
    /\ tree[Head(todo)].kind = "nostat"
    /\ errlog' = Reported(Head(todo))
    /\ todo' = SkipError(Tail(todo))
    /\ UNCHANGED <<syncVars, tree, pairs, found, result, wpc>>

\* the second filter_map: the member is no directory
EntryOther ==
    /\ wpc = "filter"
    /\ todo # <<>>
    /\ tree[Head(todo)].kind \in {"file", "link"}
    /\ todo' = Tail(todo)
    /\ UNCHANGED <<syncVars, tree, pairs, found, result, errlog, wpc>>

\* a directory: kept when it holds data.h5
EntryDirectory ==
    /\ wpc = "filter"
    /\ todo # <<>>
    /\ tree[Head(todo)].kind = "dir"
    /\ found' = IF HasContainer(tree, Head(todo)) THEN Append(found, Head(todo)) ELSE found
    /\ todo' = Tail(todo)
    /\ UNCHANGED <<syncVars, tree, pairs, result, errlog, wpc>>

\* collect()
EntriesEnd ==
    /\ wpc = "filter"
    /\ todo = <<>>
    /\ wpc' = "done"
    /\ UNCHANGED <<syncVars, tree, todo, pairs, found, result, errlog>>

NextEntries ==
    ListDirectory \/ EntryError \/ EntryNoType \/ EntryOther \/ EntryDirectory \/ EntriesEnd

SpecEntries == InitEntries /\ [][NextEntries]_vars

(***************************************************************************)
(* core/discovery.rs new_collection and create_identifier.  The target is  *)
(* root/a/proj; what is there before the call is one of the shapes below.  *)
(***************************************************************************)
Target == <<<<"a">>, <<"proj">>>>

UidPieces == {"X", ".", "yml"}

\* the uids the initializer is called with
NewUids == UNION {[1..n -> UidPieces] : n \in 0..MaxUid}

TargetShapes ==
    {"absent", "parent", "parentfile", "file", "link", "empty", "full", "marked",
     "badfirst", "locked", "besides"}

RootOnly == (<<>> :> Node("dir", <<>>))

WithParent == RootOnly @@ (Parent(Target) :> Node("dir", <<>>))

TargetTree(shape) ==
    CASE shape = "absent" -> RootOnly
      [] shape = "parent" -> WithParent
      [] shape = "parentfile" -> RootOnly @@ (Parent(Target) :> Node("file", <<>>))
      [] shape \in {"file", "link", "locked"} -> WithParent @@ (Target :> Node(shape, <<>>))
      [] shape = "empty" -> WithParent @@ (Target :> Node("dir", <<>>))
      [] shape = "full" ->
            WithParent @@ (Target :> Node("dir", <<>>))
                @@ (Append(Target, Notes) :> Node("file", <<>>))
      [] shape = "marked" ->
            WithParent @@ (Target :> Node("dir", <<>>))
                @@ (Append(Target, MarkerX) :> Node("file", <<>>))
      [] shape = "badfirst" ->
            WithParent @@ (Target :> Node("dir", <<>>))
                @@ (Append(Target, Notes) :> Node("bad", <<>>))
      [] shape = "besides" ->
            WithParent @@ (Append(Parent(Target), Notes) :> Node("bad", <<>>))

\* Path::exists and Path::is_dir follow links; a link here leads nowhere
PathExists(t, p) == p \in DOMAIN t /\ t[p].kind \in {"file", "dir", "locked"}

is_dir(t, p) == p \in DOMAIN t /\ t[p].kind \in {"dir", "locked"}

\* a check that takes every directory for empty
NeverOccupied(t, p) == FALSE

\* fs::read_dir(&path)?.next().is_some()
Occupied(t, p) == Children(t, p) # {}

\* Path::with_extension("yml") on a name that starts with a dot: whatever
\* follows the last later dot is replaced, and without such a dot ".yml"
\* is appended
with_extension_yml(name) ==
    LET dots == {i \in DOMAIN name : i > 1 /\ name[i] = "."}
    IN IF dots = {} THEN name \o YmlSuffix
       ELSE SubSeq(name, 1, (CHOOSE i \in dots : \A j \in dots : j <= i) - 1) \o YmlSuffix

\* create_identifier: the path of the marker file
meta_file(path, uid) == Append(path, with_extension_yml(META_FILE_PREFIX \o uid))

\* serde_yaml::to_string(&MetaFile { uid, created, author })
to_yaml(uid, created, author) == <<"uid", uid, "created", created, "author", author>>

\* serde_yaml::from_str: the mapping of a document, None for any other text
from_yaml(text) ==
    IF Len(text) = 6 /\ text[1] = "uid" /\ text[3] = "created" /\ text[5] = "author"
    THEN [some |-> TRUE, v |-> [uid |-> text[2], created |-> text[4], author |-> text[6]]]
    ELSE [some |-> FALSE, v |-> [uid |-> <<>>, created |-> <<>>, author |-> "null"]]

\* get_author: the git identity, when there is one
Authors == {"null", "name and email"}

\* fs::create_dir_all: the directories above p that are missing, and p
MissingDirs(t, p) == {SubSeq(p, 1, i) : i \in 1..Len(p)} \ DOMAIN t

Returned(ret) == [result EXCEPT !.ret = ret]

InitCreate ==
    /\ InitSync
    /\ uidOf = [d \in Dirs |-> "A"]
    /\ fs[<<"R/d1", "run1">>].content = Good1
    /\ tree \in {TargetTree(shape) : shape \in TargetShapes}
    /\ todo = <<>>
    /\ pairs = <<>>
    /\ found = <<>>
    /\ result \in {[path |-> Target, uid |-> u, ret |-> "none", before |-> tree] :
                     u \in NewUids}
    /\ errlog = <<>>
    /\ wpc = "check"

\* path.exists(), path.is_dir(), read_dir(path)?.next().is_some()
CheckTarget ==
    /\ wpc = "check"
    /\ IF ~PathExists(tree, result.path)
       THEN wpc' = "mkdir" /\ result' = result
       ELSE IF ~is_dir(tree, result.path)
       THEN wpc' = "done" /\ result' = Returned("AlreadyExists")
       ELSE IF tree[result.path].kind = "locked"
       THEN wpc' = "done" /\ result' = Returned("Other")
       ELSE IF Occupied(tree, result.path)
       THEN wpc' = "done" /\ result' = Returned("DirectoryNotEmpty")
       ELSE wpc' = "write" /\ result' = result
    /\ UNCHANGED <<syncVars, tree, todo, pairs, found, errlog>>

\* fs::create_dir_all(&path)?
MakeDirs(ok) ==
    /\ wpc = "mkdir"
    /\ LET p == result.path
           blocked == \E i \in 1..Len(p) :
                         SubSeq(p, 1, i) \in DOMAIN tree /\ ~is_dir(tree, SubSeq(p, 1, i))
       IN IF p \in DOMAIN tree
          THEN /\ ~ok
               /\ tree' = tree
               /\ wpc' = "done"
               /\ result' = Returned("AlreadyExists")
          ELSE IF blocked \/ ~ok
          THEN /\ ~ok
               /\ \E made \in SUBSET (MissingDirs(tree, p) \ {p}) :
                     /\ \A q \in made : Parent(q) \in DOMAIN tree \cup made
                     /\ ~blocked \/ made = {}
                     /\ tree' = tree @@ [q \in made |-> Node("dir", <<>>)]
               /\ wpc' = "done"
               /\ result' = Returned("Other")
          ELSE /\ tree' = tree @@ [q \in MissingDirs(tree, p) |-> Node("dir", <<>>)]
               /\ wpc' = "write"
               /\ result' = result
    /\ UNCHANGED <<syncVars, todo, pairs, found, errlog>>

\* create_identifier(&path, uid)?
WriteMarker(ok, t, author) ==
    /\ wpc = "write"
    /\ now' = t
    /\ IF ok
       THEN /\ tree' = (meta_file(result.path, result.uid)
                            :> Node("file", to_yaml(result.uid, local_to_rfc3339(t), author)))
                       @@ tree
            /\ result' = Returned("Ok")
       ELSE /\ tree' = tree
            /\ result' = Returned("Other")
    /\ wpc' = "done"
    /\ UNCHANGED <<uidOf, fs, writes, db, tx, pc, scans, scanVars, log, fault, histVars,
                   todo, pairs, found, errlog>>

NextCreate ==
    \/ CheckTarget
    \/ \E ok \in BOOLEAN : MakeDirs(ok)
    \/ \E ok \in BOOLEAN, t \in Clock, author \in Authors : WriteMarker(ok, t, author)

SpecCreate == InitCreate /\ [][NextCreate]_vars

(***************************************************************************)
(* new_collection followed by find_all on the root above the target: the   *)
(* marker lies three levels below the root, within max_depth.              *)
(***************************************************************************)
\* find_all(root) called once the initializer has returned Ok
FindAfterCreate ==
    /\ wpc = "done"
    /\ result.ret = "Ok"
    /\ pairs = <<>>
    /\ errlog = <<>>
    /\ todo' = << <<>> >>
    /\ wpc' = "walk"
    /\ UNCHANGED <<syncVars, tree, pairs, found, result, errlog>>

NextRound == NextCreate \/ FindAfterCreate \/ NextWalk

SpecRound == InitCreate /\ [][NextRound]_vars

(***************************************************************************)
(* api/mod.rs ls_params on a cache file that scans have filled: the store  *)
(* is the outcome of a few upserts of decoded containers.                  *)
(***************************************************************************)
\* a container whose one parameter is a float
Good3 ==
    Container(TRUE, StrAttr(Tagged("datetime", "2025-06-01T12:00:00Z")),
              StrAttr("third run"), StrAttr("done"), BoolAttr(FALSE), TRUE,
              [k \in {"dt"} |-> FloatAttr("0.5")])

\* what one upsert_simulation of a filled cache was called with
Upserts ==
    {[uid |-> u, name |-> n, data |-> load_entry_meta(c), json |-> text] :
        u \in Uids, n \in EntryNames, c \in {Good1, Good2, Good3},
        text \in UNION {JsonTexts(load_entry_meta(d).params) : d \in {Good1, Good2, Good3}}}

RECURSIVE Filled(_)
Filled(ups) ==
    IF ups = <<>> THEN open_or_init(EmptyStore)
    ELSE LET u == ups[Len(ups)]
         IN upsert_simulation(Filled(SubSeq(ups, 1, Len(ups) - 1)),
                              u.uid, u.name, u.data.meta, u.json, 0)

Stores ==
    {Filled(ups) :
        ups \in UNION {{s \in [1..n -> Upserts] :
                           \A i \in 1..n : s[i].json \in JsonTexts(s[i].data.params)} :
                       n \in 0..MaxRows}}

\* every order of the members of a set
Orders(S) == {s \in [1..Cardinality(S) -> S] : \A i, j \in DOMAIN s : i # j => s[i] # s[j]}

\* serde_json::Value::to_string: a number as it is, a string in quotes
value_to_string(val) == IF val.t = "str" THEN "\"" \o val.v \o "\"" ELSE val.v

\* HashMap::insert: the value of a key already there is replaced
insert(examples, k, text) ==
    [j \in DOMAIN examples \cup {k} |-> IF j = k THEN text ELSE examples[j]]

\* HashMap::entry(k).or_insert_with(..): the value of a key already there stays
or_insert_with(examples, k, text) ==
    [j \in DOMAIN examples \cup {k} |-> IF j \in DOMAIN examples THEN examples[j] ELSE text]

RECURSIVE AllInserted(_, _, _)
\* "for (k, v) in obj": every member of the object, one after the other
AllInserted(examples, obj, keys) ==
    IF keys = {} THEN examples
    ELSE LET k == CHOOSE x \in keys : TRUE
         IN AllInserted(or_insert_with(examples, k, value_to_string(obj[k])), obj, keys \ {k})

NoExamples == [k \in {} |-> ""]

NoListing ==
    [collection |-> "", rows |-> <<>>, all_keys |-> {}, examples |-> NoExamples,
     printed |-> <<>>]

InitParams ==
    /\ now = 0
    /\ uidOf = [d \in Dirs |-> "A"]
    /\ fs = [e \in EntryDirs |->
                [exists |-> TRUE, mtime |-> 0,
                 content |-> IF e = <<"R/d1", "run1">> THEN Good1 ELSE Good2]]
    /\ writes = 0
    /\ db \in Stores
    /\ tx = db
    /\ pc = "idle"
    /\ scans = 0
    /\ collections = <<>>
    /\ ci = 0
    /\ entries = <<>>
    /\ ei = 0
    /\ last_sync_time = None
    /\ mtime = None
    /\ decoded = NoEntry
    /\ log = <<>>
    /\ fault = "none"
    /\ dbAtStart = db
    /\ undone = FALSE
    /\ changed = {}
    /\ dirty = FALSE
    /\ stable = 0
    /\ baseline = Contents(EmptyStore)
    /\ tree = NoTree
    /\ todo = <<>>
    /\ pairs = <<>>
    /\ found = <<>>
    /\ result = NoListing
    /\ errlog = <<>>
    /\ wpc = "query"

\* SELECT parameters_json FROM simulations WHERE collection_uid = ?1: the
\* statement has no ORDER BY, the rows come in the order the engine picks
QueryRows(collection) ==
    /\ wpc = "query"
    /\ \E rows \in Orders({i \in DOMAIN db.simulations :
                             db.simulations[i].collection_uid = collection}) :
          /\ todo' = [i \in DOMAIN rows |-> db.simulations[rows[i]].parameters_json]
          /\ result' = [result EXCEPT !.collection = collection, !.rows = rows]
    /\ wpc' = "rows"
    /\ UNCHANGED <<syncVars, tree, pairs, found, errlog>>

\* one turn of "while let Some(row) = rows.next()"
NextRow ==
    /\ wpc = "rows"
    /\ todo # <<>>
    /\ LET obj == JsonObject(Head(todo))
       IN result' = [result EXCEPT !.all_keys = @ \cup DOMAIN obj,
                                   !.examples = AllInserted(@, obj, DOMAIN obj)]
    /\ todo' = Tail(todo)
    /\ UNCHANGED <<syncVars, tree, pairs, found, errlog, wpc>>

\* "for key in all_keys": one line per key, in the order of the HashSet
PrintKeys ==
    /\ wpc = "rows"
    /\ todo = <<>>
    /\ \E keys \in Orders(result.all_keys) :
          result' = [result EXCEPT !.printed =
                        [i \in DOMAIN keys |->
                            <<keys[i],
                              IF keys[i] \in DOMAIN result.examples
                              THEN result.examples[keys[i]] ELSE "<none>">>]]
    /\ wpc' = "done"
    /\ UNCHANGED <<syncVars, tree, todo, pairs, found, errlog>>

NextParams ==
    \/ \E collection \in Uids : QueryRows(collection)
    \/ NextRow
    \/ PrintKeys

SpecParams == InitParams /\ [][NextParams]_vars

(***************************************************************************)
(* core/entry.rs load_entry_meta on the containers it may meet.  Which     *)
(* typed reads of an attribute succeed is hdf5's matter: a parameter       *)
(* attribute is drawn with every combination of the three reads.           *)
(***************************************************************************)
ProbeAttrs ==
    {[present |-> TRUE, i64 |-> i, f64 |-> f, str |-> s, bool |-> NoneB] :
        i \in {NoneS, Some("100")}, f \in {NoneS, Some("100.0")}, s \in {NoneS, Some("fast")}}

ParamNames == {"steps", "dt"}

\* the attributes of the ".parameters" group; one that is listed by
\* attr_names but cannot be opened is not present
ParamGroups ==
    UNION {[names -> ProbeAttrs \cup {AbsentAttr}] : names \in SUBSET ParamNames}

CreatedAts ==
    {StrAttr(Tagged("datetime", "2024-01-01T01:00:00+01:00")),
     StrAttr(Tagged("datetime", "2024-01-01T00:00:00")),
     StrAttr(Tagged("datetime", "yesterday")),
     StrAttr(Tagged("date", "2024-01-01T00:00:00Z")),
     StrAttr(NotJson),
     IntAttr("1704067200"),
     AbsentAttr}

Submitteds == {BoolAttr(TRUE), BoolAttr(FALSE), StrAttr("yes"), AbsentAttr}

Containers ==
    {Container(TRUE, created_at, description, StrAttr("done"), submitted, TRUE, attrs) :
        created_at \in CreatedAts, description \in {StrAttr("first run"), AbsentAttr},
        submitted \in Submitteds, attrs \in ParamGroups}
    \cup {Unreadable,
          Container(TRUE, StrAttr(Tagged("datetime", "2024-01-01T00:00:00")),
                    StrAttr("first run"), StrAttr("done"), BoolAttr(TRUE), FALSE, NoParams)}

NoDecoding == [container |-> Unreadable, first |-> NoEntry, second |-> NoEntry]

\* "Failed to parse created_at: ..." on stderr
Warned(c) ==
    IF c.open /\ ReadStr(c.created_at).some
       /\ ~parse_datetime_field(ReadStr(c.created_at).v).some
    THEN Append(errlog, ReadStr(c.created_at).v)
    ELSE errlog

InitDecode ==
    /\ InitSync
    /\ uidOf = [d \in Dirs |-> "A"]
    /\ fs[<<"R/d1", "run1">>].content = Good1
    /\ tree = NoTree
    /\ todo = <<>>
    /\ pairs = <<>>
    /\ found = <<>>
    /\ result \in {[NoDecoding EXCEPT !.container = c] : c \in Containers}
    /\ errlog = <<>>
    /\ wpc = "decode"

\* load_entry_meta(entry_path)
Decode ==
    /\ wpc = "decode"
    /\ result' = [result EXCEPT !.first = load_entry_meta(result.container)]
    /\ errlog' = Warned(result.container)
    /\ wpc' = "again"
    /\ UNCHANGED <<syncVars, tree, todo, pairs, found>>

\* load_entry_meta(entry_path) once more, the container being as it was
DecodeAgain ==
    /\ wpc = "again"
    /\ result' = [result EXCEPT !.second = load_entry_meta(result.container)]
    /\ errlog' = Warned(result.container)
    /\ wpc' = "done"
    /\ UNCHANGED <<syncVars, tree, todo, pairs, found>>

NextDecode == Decode \/ DecodeAgain

SpecDecode == InitDecode /\ [][NextDecode]_vars

(***************************************************************************)
(* Vocabulary of the properties                                            *)
(***************************************************************************)
\* the lines of the history that end an entry's turn in the loop
Finished == {i \in DOMAIN log : log[i].outcome # "listed"}

SameEntry(a, b) == a.dir = b.dir /\ a.name = b.name

SameKey(a, b) == a.uid = b.uid /\ a.name = b.name

\* the rows of a store, without the bookkeeping of the file
Rows(store) == <<store.collections, store.simulations, store.seq>>

\* this step is the loop's comparison of mtime and watermark for an entry
ProbeStep == pc = "entry" /\ pc' # "aborted" /\ (pc' = "decode" \/ log' # log)

\* two rows of simulations with one key
SameKeyRows(r, q) == r.collection_uid = q.collection_uid /\ r.name = q.name

\* this step is a successful upsert_collection
CollectionStep == pc = "collection" /\ pc' \notin {"collection", "aborted"}

\* this step is load_entry_meta for an entry
DecodeStep == pc = "decode" /\ pc' \notin {"decode", "aborted"}

\* this step is a successful upsert_simulation
UpsertStep == pc = "upsert" /\ pc' \notin {"upsert", "aborted"}

(***************************************************************************)
(* C1: during scan, an entry that has a cache row and whose container      *)
(* mtime is not strictly greater than the row's last_sync_time (equality   *)
(* included) is skipped: it is not decoded and its row is not written.     *)
(* The loop of api/mod.rs skips on "mtime < watermark" only, so an entry   *)
(* with mtime = watermark is decoded and written again.                    *)
(***************************************************************************)
C1_SkipUnlessNewer ==
    /\ \A i \in Finished :
          (log[i].mtime.some /\ log[i].watermark.some
              /\ log[i].mtime.v <= log[i].watermark.v) => log[i].outcome = "skipped"
    /\ (pc \in {"decode", "upsert"} /\ last_sync_time.some) => mtime.v > last_sync_time.v

\* the last line of the history that wrote the row of the key of line i
LastSynced(i) ==
    \A j \in Finished : (j > i /\ SameKey(log[i], log[j])) => log[j].outcome # "synced"

\* the row content that decoded data stands for
ContentOf(data) ==
    [created_at |-> utc_to_rfc3339(data.meta.created_at),
     description |-> data.meta.description,
     status |-> data.meta.status,
     submitted |-> IF data.meta.submitted THEN 1 ELSE 0,
     parameters |-> data.params]

\* every entry that find_entries listed had its turn in the loop
AllProcessed ==
    \A i \in DOMAIN log :
        log[i].outcome = "listed" => \E j \in Finished : j > i /\ SameEntry(log[i], log[j])

\* the lines of the history about entry directory e
LinesOf(e) == {i \in Finished : log[i].dir = e[1] /\ log[i].name = e[2]}

(***************************************************************************)
(* C2 as stated: an entry with a cache row whose container mtime strictly  *)
(* rose after the prior scan is re-decoded and its row updated by the next *)
(* scan.  Checked where the next scan reaches its commit.                  *)
(***************************************************************************)
C2_ResyncAlways ==
    pc = "commit" =>
        \A e \in changed : \E i \in LinesOf(e) : log[i].outcome = "synced"

(***************************************************************************)
(* C2 amended: an entry with a cache row whose container mtime strictly    *)
(* rose after the prior scan is never skipped for its own watermark by the *)
(* next scan: it is re-decoded, and its row is updated when the decoding   *)
(* succeeds; a decoding failure leaves the row as it is.  The one skip     *)
(* left is behind an entry of the same uid and name in another directory   *)
(* that the same scan wrote before, whose fresh watermark it then reads.   *)
(***************************************************************************)
C2_ResyncUnlessShadowed ==
    pc = "commit" =>
        \A e \in changed :
            /\ LinesOf(e) # {}
            /\ \A i \in LinesOf(e) :
                  \/ /\ log[i].outcome = "synced"
                     /\ HasRow(tx, log[i].uid, log[i].name)
                     /\ LastSynced(i) =>
                           Content(RowOf(tx, log[i].uid, log[i].name)) = ContentOf(log[i].data)
                  \/ log[i].outcome = "failed"
                  \/ /\ log[i].outcome = "skipped"
                     /\ \E j \in Finished :
                           /\ j < i
                           /\ SameKey(log[j], log[i])
                           /\ log[j].dir # log[i].dir
                           /\ log[j].outcome = "synced"

\* a changed entry was decoded again and its row rewritten
C2_Witness ==
    /\ pc = "commit"
    /\ \E e \in changed : \E i \in LinesOf(e) :
          /\ log[i].outcome = "synced"
          /\ log[i].watermark.some
          /\ log[i].mtime.v >= log[i].watermark.v
          /\ Content(RowOf(tx, log[i].uid, log[i].name)) = ContentOf(log[i].data)
          /\ Content(RowOf(db, log[i].uid, log[i].name)) # ContentOf(log[i].data)

(***************************************************************************)
(* C3: idempotence.  Two scans in succession, both committed, with no      *)
(* filesystem change from the start of the first to the end of the second: *)
(* after the second the cache holds the same keys with the same content    *)
(* (created_at, description, status, submitted, parameters) as after the   *)
(* first.  With two directories of one uid the scan of api/mod.rs writes   *)
(* the same row twice when mtime = watermark (see C1), and which of the    *)
(* two contents stays depends on the clock.                                *)
(***************************************************************************)
C3_Idempotent == stable >= 2 => Contents(db) = baseline

(***************************************************************************)
(* C4: uniqueness.  Neither the cache file nor the store inside the open   *)
(* transaction ever holds two rows with the same (collection_uid, name),   *)
(* nor two rows with the same id.                                          *)
(***************************************************************************)
NoDuplicateKey(store) ==
    \A i, j \in DOMAIN store.simulations :
        \/ i = j
        \/ /\ ~SameKeyRows(store.simulations[i], store.simulations[j])
           /\ store.simulations[i].id # store.simulations[j].id

C4_Uniqueness == NoDuplicateKey(db) /\ NoDuplicateKey(tx)

\* one key was written twice in one run (two directories of one uid), and
\* the committed cache holds one row for it, under the id of the first write
C4_Witness ==
    /\ pc = "done"
    /\ fault = "none"
    /\ \E i, j \in Finished :
          /\ i < j
          /\ SameKey(log[i], log[j])
          /\ log[i].outcome = "synced"
          /\ log[j].outcome = "synced"
          /\ log[i].id = log[j].id
          /\ Cardinality({k \in DOMAIN db.simulations :
                             IsKey(db.simulations[k], log[i].uid, log[i].name)}) = 1

(***************************************************************************)
(* C5: graceful partial failure.  A run that no store error and no         *)
(* termination hit ends with every listed entry processed, whatever failed *)
(* for other entries (mtime not readable, container not decodable), and    *)
(* with the row of every entry it wrote committed, holding the content of  *)
(* the last write to that key.                                             *)
(***************************************************************************)
C5_PartialFailure ==
    (pc = "done" /\ fault = "none") =>
        /\ AllProcessed
        /\ \A i \in Finished :
              log[i].outcome = "synced" =>
                  /\ HasRow(db, log[i].uid, log[i].name)
                  /\ RowOf(db, log[i].uid, log[i].name).id = log[i].id
                  /\ LastSynced(i) =>
                        Content(RowOf(db, log[i].uid, log[i].name)) = ContentOf(log[i].data)

\* an entry failed, a later sibling and an entry of the other collection
\* were written and committed
C5_Witness ==
    /\ pc = "done"
    /\ fault = "none"
    /\ \E i, j, k \in Finished :
          /\ log[i].outcome \in {"failed", "nomtime"}
          /\ j > i /\ log[j].dir = log[i].dir /\ log[j].outcome = "synced"
          /\ k > j /\ log[k].dir # log[i].dir /\ log[k].outcome = "synced"
          /\ HasRow(db, log[j].uid, log[j].name)
          /\ HasRow(db, log[k].uid, log[k].name)

(***************************************************************************)
(* C6: one transaction per scan.  The rows of the cache file change in one *)
(* step only, the commit, which makes them the rows of the transaction;    *)
(* the commit comes after every listed entry of every collection had its   *)
(* turn, and the run ends with it.                                         *)
(***************************************************************************)
C6_OneTransaction ==
    [][/\ Rows(db') # Rows(db) => (pc = "commit" /\ pc' = "done" /\ Rows(db') = Rows(tx))
       /\ pc' = "commit" => (AllProcessed' /\ ci' = Len(collections'))
       /\ pc = "commit" => pc' \in {"commit", "done", "aborted"}]_vars

\* a committed run that wrote entries of two collections
C6_Witness ==
    /\ pc = "done"
    /\ fault = "none"
    /\ Rows(db) # Rows(dbAtStart)
    /\ \E i, j \in Finished :
          /\ log[i].dir # log[j].dir
          /\ log[i].outcome = "synced"
          /\ log[j].outcome = "synced"

(***************************************************************************)
(* C7: a scan that stops before its commit (termination, or a panic on a   *)
(* store error) leaves both tables of the cache file with the rows they    *)
(* had when the run opened its transaction.                                *)
(***************************************************************************)
C7_AbortRestores == pc = "aborted" => Rows(db) = Rows(dbAtStart)

\* a run over a cache with rows was stopped after it had written
C7_Witness ==
    /\ pc = "aborted"
    /\ fault \in {"killed", "entry", "collection"}
    /\ undone
    /\ Len(db.simulations) > 0

(***************************************************************************)
(* C8: every store error is fatal.  A run that a store error hit (open,    *)
(* begin, collection upsert, entry upsert, commit) aborts and does not     *)
(* report "Sync complete".  scan ignores the result of tx.commit() and     *)
(* reports completion after a failed commit.                               *)
(***************************************************************************)
C8_StoreErrorsFatal ==
    fault \in {"open", "begin", "collection", "entry", "commit"} => pc # "done"

(***************************************************************************)
(* C9: upsert_simulation inserts the row of (collection_uid, name) when    *)
(* there is none and updates it otherwise, keeping its id; afterwards the  *)
(* row's created_at, description, status and submitted read back as the    *)
(* given metadata, its parameters_json reads back as exactly the given     *)
(* mapping, its last_sync_time reads back as the clock reading of the      *)
(* call, the returned id is the row's, and every other row is unchanged.   *)
(***************************************************************************)
C9_UpsertEntry ==
    [][UpsertStep =>
        LET uid == CurUid
            name == CurEntry[2]
            n == Len(tx.simulations)
        IN /\ HasRow(tx', uid, name)
           /\ LET row == RowOf(tx', uid, name)
              IN /\ parse_from_rfc3339(row.created_at) = Some(decoded.meta.created_at)
                 /\ row.description = decoded.meta.description
                 /\ row.status = decoded.meta.status
                 /\ (row.submitted = 1) = decoded.meta.submitted
                 /\ row.submitted \in {0, 1}
                 /\ JsonObject(row.parameters_json) = decoded.params
                 /\ parse_local_rfc3339(row.last_sync_time) = Some(now')
                 /\ log'[Len(log')].id = row.id
                 /\ IF HasRow(tx, uid, name)
                    THEN /\ Len(tx'.simulations) = n
                         /\ row.id = RowOf(tx, uid, name).id
                    ELSE /\ Len(tx'.simulations) = n + 1
                         /\ \A i \in 1..n : tx.simulations[i].id # row.id
           /\ \A i \in 1..n :
                 ~IsKey(tx.simulations[i], uid, name) => tx'.simulations[i] = tx.simulations[i]
           /\ tx'.collections = tx.collections]_vars

\* a row was updated with a mapping that lacks a key of the older mapping
C9_Witness ==
    \E i, j \in Finished :
        /\ i < j
        /\ SameKey(log[i], log[j])
        /\ log[i].outcome = "synced"
        /\ log[j].outcome = "synced"
        /\ LastSynced(j)
        /\ "dt" \in DOMAIN log[i].data.params
        /\ "dt" \notin DOMAIN log[j].data.params
        /\ HasRow(tx, log[j].uid, log[j].name)
        /\ "dt" \notin DOMAIN JsonObject(RowOf(tx, log[j].uid, log[j].name).parameters_json)
        /\ log[j].id = log[i].id

(***************************************************************************)
(* C10: get_sim_sync_time gives the last_sync_time of the row of the key,  *)
(* or absence when there is no row; an entry with no watermark and a       *)
(* readable mtime is never skipped: it is decoded, and written when the    *)
(* decoding succeeds.                                                      *)
(***************************************************************************)
C10_AbsentWatermark ==
    /\ [](\A i \in Finished :
             (~log[i].watermark.some /\ log[i].mtime.some) =>
                 log[i].outcome \in {"synced", "failed"})
    /\ [][/\ ProbeStep =>
                IF HasRow(tx, CurUid, CurEntry[2])
                THEN /\ last_sync_time'.some
                     /\ RowOf(tx, CurUid, CurEntry[2]).last_sync_time
                            = local_to_rfc3339(last_sync_time'.v)
                ELSE ~last_sync_time'.some
          /\ (ProbeStep /\ ~last_sync_time'.some /\ mtime'.some) => pc' = "decode"
          /\ (DecodeStep /\ ~last_sync_time.some /\ ReadEntry(fs[CurEntry]).some) =>
                pc' = "upsert"
          /\ (UpsertStep /\ ~last_sync_time.some) =>
                /\ ~HasRow(tx, CurUid, CurEntry[2])
                /\ HasRow(tx', CurUid, CurEntry[2])]_vars

\* an entry without a row was decoded and written
C10_Witness ==
    \E i \in Finished :
        /\ ~log[i].watermark.some
        /\ log[i].mtime.some
        /\ log[i].outcome = "synced"
        /\ HasRow(tx, log[i].uid, log[i].name)
        /\ parse_local_rfc3339(RowOf(tx, log[i].uid, log[i].name).last_sync_time).some

(***************************************************************************)
(* C11: the last_sync_time of a row is the wall-clock reading of the       *)
(* upsert_simulation call that wrote the row last.  Every row of the cache *)
(* file and of the open transaction carries a reading the clock has shown; *)
(* a step gives a row a last_sync_time it did not have only when the step  *)
(* is upsert_simulation for the row's key, and then it is the reading of   *)
(* that step, whatever the mtime of the container is.                      *)
(***************************************************************************)
WatermarkKept(row, store) ==
    /\ HasRow(store, row.collection_uid, row.name)
    /\ RowOf(store, row.collection_uid, row.name).last_sync_time = row.last_sync_time

StampedRows(store) ==
    \A i \in DOMAIN store.simulations :
        \E t \in 0..now : store.simulations[i].last_sync_time = local_to_rfc3339(t)

C11_WatermarkIsWriteTime ==
    /\ [](StampedRows(db) /\ StampedRows(tx))
    /\ [][/\ \A i \in DOMAIN tx'.simulations :
                LET row == tx'.simulations[i]
                IN \/ WatermarkKept(row, tx)
                   \/ WatermarkKept(row, db)
                   \/ /\ UpsertStep
                      /\ IsKey(row, CurUid, CurEntry[2])
                      /\ row.last_sync_time = local_to_rfc3339(now')
          /\ \A i \in DOMAIN db'.simulations :
                WatermarkKept(db'.simulations[i], db) \/ WatermarkKept(db'.simulations[i], tx)
          /\ UpsertStep =>
                RowOf(tx', CurUid, CurEntry[2]).last_sync_time = local_to_rfc3339(now')]_vars

\* a committed row, written again in a later clock reading than its first
\* write, carries the later reading, which is not the mtime of its container
C11_Witness ==
    /\ pc = "done"
    /\ fault = "none"
    /\ \E i \in Finished :
          /\ log[i].outcome = "synced"
          /\ LastSynced(i)
          /\ log[i].watermark.some
          /\ HasRow(db, log[i].uid, log[i].name)
          /\ LET at == parse_local_rfc3339(RowOf(db, log[i].uid, log[i].name).last_sync_time)
             IN /\ at.some
                /\ at.v > log[i].watermark.v
                /\ at.v # log[i].mtime.v
                /\ at.v = now

(***************************************************************************)
(* C12: upsert_collection(uid, path) leaves exactly one row of collections *)
(* with that uid, holding the given path; the rows of the other uids are   *)
(* the same as before, and so is the simulations table.                    *)
(***************************************************************************)
RowsOfUid(store, uid) == {i \in DOMAIN store.collections : store.collections[i].uid = uid}

OtherUids(store, uid) ==
    {store.collections[i] : i \in DOMAIN store.collections \ RowsOfUid(store, uid)}

C12_UpsertCollection ==
    [][CollectionStep =>
        /\ Cardinality(RowsOfUid(tx', CurUid)) = 1
        /\ \A i \in RowsOfUid(tx', CurUid) : tx'.collections[i].path = collections[ci][1]
        /\ OtherUids(tx', CurUid) = OtherUids(tx, CurUid)
        /\ Len(tx'.collections) = Cardinality(OtherUids(tx, CurUid)) + 1
        /\ tx'.simulations = tx.simulations
        /\ tx'.seq = tx.seq]_vars

\* a uid that the cache file knows under one path was stored under another
\* path, and the entry rows are those of the cache file
C12_Witness ==
    /\ pc = "entry"
    /\ \E i \in DOMAIN db.collections, j \in DOMAIN tx.collections :
          /\ tx.collections[j].uid = db.collections[i].uid
          /\ tx.collections[j].path # db.collections[i].path
          /\ tx.collections[j].path = collections[ci][1]
          /\ Cardinality(RowsOfUid(tx, tx.collections[j].uid)) = 1
    /\ Len(tx.simulations) > 0
    /\ tx.simulations = db.simulations

(***************************************************************************)
(* C13: uids are not unique among markers.  While a scan runs, its list of *)
(* collections holds one pair per marker, also for markers of one uid; a   *)
(* run that committed leaves one row of collections per declared uid, and  *)
(* its path is the directory of the last marker of that uid in the order   *)
(* of the walk.                                                            *)
(***************************************************************************)
LastDirOf(u) ==
    DirOrder[CHOOSE i \in DOMAIN DirOrder :
                /\ uidOf[DirOrder[i]] = u
                /\ \A j \in DOMAIN DirOrder : uidOf[DirOrder[j]] = u => j <= i]

C13_DuplicateUids ==
    /\ pc \in Running =>
          /\ Len(collections) = Cardinality(Dirs)
          /\ \A d \in Dirs : \E i \in DOMAIN collections : collections[i] = <<d, uidOf[d]>>
    /\ (pc = "done" /\ fault = "none") =>
          /\ {db.collections[i].uid : i \in DOMAIN db.collections} = {uidOf[d] : d \in Dirs}
          /\ \A d \in Dirs :
                /\ Cardinality(RowsOfUid(db, uidOf[d])) = 1
                /\ \A i \in RowsOfUid(db, uidOf[d]) : db.collections[i].path = LastDirOf(uidOf[d])

\* two markers declared one uid, the run committed, and the one row of the
\* uid names the directory that came last
C13_Witness ==
    /\ pc = "done"
    /\ fault = "none"
    /\ uidOf["R/d1"] = uidOf["R/d2"]
    /\ Len(db.collections) = 1
    /\ db.collections[1] = [uid |-> uidOf["R/d1"], path |-> "R/d2"]
    /\ \E i, j \in DOMAIN log : log[i].dir = "R/d1" /\ log[j].dir = "R/d2"

(***************************************************************************)
(* C14: open_or_init is idempotent.  After it the store has both tables;   *)
(* applied to a store that has them it changes nothing, and applied by the *)
(* start of any run it leaves the rows of both tables as they were.        *)
(***************************************************************************)
OpenStep == pc \in {"idle", "done", "aborted"} /\ scans' = scans + 1 /\ fault' # "open"

C14_OpenOrInitIdempotent ==
    /\ [](/\ open_or_init(db).tables
          /\ open_or_init(open_or_init(db)) = open_or_init(db)
          /\ Rows(open_or_init(db)) = Rows(db)
          /\ db.tables => open_or_init(db) = db)
    /\ [][OpenStep => (db'.tables /\ Rows(db') = Rows(db))]_vars

\* a second run opened a cache file that holds rows of both tables
C14_Witness ==
    /\ scans = 2
    /\ pc = "collection"
    /\ ci = 1
    /\ db.tables
    /\ Len(db.collections) > 0
    /\ Len(db.simulations) > 0
    /\ db = dbAtStart

(***************************************************************************)
(* Vocabulary of the properties of the scanners                            *)
(***************************************************************************)
\* the name is text that starts with the marker prefix
IsMarkerName(n) ==
    /\ Len(n) >= 1
    /\ n[1] = META_FILE_PREFIX[1]
    /\ \A i \in DOMAIN n : n[i] # NotUtf8

\* the bytes of the name start with the bytes of the marker prefix
StartsWithPrefix(n) == Len(n) >= 1 /\ n[1] = META_FILE_PREFIX[1]

\* the remainder of a marker name, less one trailing ".yml"
UidOfName(n) ==
    LET r == Tail(n)
    IN IF Len(r) >= 2 /\ r[Len(r) - 1] = "." /\ r[Len(r)] = "yml"
       THEN SubSeq(r, 1, Len(r) - 2)
       ELSE r

\* every directory above p, the root included, can be read
Readable(p) == \A i \in 0..(Len(p) - 1) : tree[SubSeq(p, 1, i)].kind = "dir"

PairSet == {pairs[i] : i \in DOMAIN pairs}

(***************************************************************************)
(* C15: find_all returns one pair (containing directory, uid) for every    *)
(* regular file with a marker name that lies 1 to 5 levels below the root  *)
(* (a marker in the root itself is level 1), and nothing else: no pair for *)
(* a marker deeper than 5 levels, for a directory or a symbolic link with  *)
(* a marker name, or for a file without the prefix.                        *)
(***************************************************************************)
MarkersWithin(levels) ==
    {p \in DOMAIN tree :
        /\ tree[p].kind = "file"
        /\ Len(p) >= 1
        /\ Len(p) <= levels
        /\ Readable(p)
        /\ IsMarkerName(FileName(p))}

C15_DepthBound ==
    wpc = "done" =>
        /\ PairSet = {<<Parent(p), UidOfName(FileName(p))>> : p \in MarkersWithin(5)}
        /\ Len(pairs) = Cardinality(MarkersWithin(5))

\* a marker at level 5 was returned, one at level 6 or below was not, and
\* neither was a plain file
C15_Witness ==
    /\ wpc = "done"
    /\ \E p, q \in DOMAIN tree :
          /\ Len(p) = 5
          /\ <<Parent(p), <<"X">>>> \in PairSet
          /\ Len(q) > 5
          /\ tree[q].kind = "file"
          /\ Readable(q)
          /\ IsMarkerName(FileName(q))
          /\ \A i \in DOMAIN pairs : pairs[i][1] # Parent(q)
    /\ tree[<<Notes>>].kind = "file"
    /\ \A i \in DOMAIN pairs : pairs[i][2] \in {<<"X">>, <<"Y">>}

(***************************************************************************)
(* C16: a marker is recognised by its file name alone.  For a regular file *)
(* in the root whose name is the prefix followed by a remainder r,         *)
(* find_all returns the one pair (root, uid) where uid is r less one       *)
(* trailing ".yml"; for any other name it returns nothing; the content of  *)
(* the file does not matter.  The closure gives up on a name that is not   *)
(* valid UTF-8 (to_str()?), so such a name is no marker whatever it starts *)
(* with.                                                                   *)
(***************************************************************************)
C16_NameOnly ==
    wpc = "done" =>
        \A n \in Names :
            (DOMAIN tree = {<<>>, <<n>>} /\ tree[<<n>>].kind = "file") =>
                pairs = IF StartsWithPrefix(n) THEN << <<(<<>>), UidOfName(n)>> >> ELSE <<>>

\* C16 for the names that are valid UTF-8: this much holds
C16_TextNames ==
    wpc = "done" =>
        \A n \in Names :
            (DOMAIN tree = {<<>>, <<n>>} /\ tree[<<n>>].kind = "file") =>
                pairs = IF IsMarkerName(n) THEN << <<(<<>>), UidOfName(n)>> >> ELSE <<>>

(***************************************************************************)
(* C17: an unreadable node does not end the walk.  find_all reports a      *)
(* directory it cannot read, or an entry the iterator fails on, once, and  *)
(* goes on: every marker below the directories that can be read (within    *)
(* the depth bound) is in the result.                                      *)
(***************************************************************************)
ErrorNodes ==
    {p \in DOMAIN tree :
        /\ Readable(p)
        /\ \/ tree[p].kind = "bad" /\ Len(p) <= max_depth
           \/ tree[p].kind = "locked" /\ Len(p) < max_depth}

C17_ErrorsSkipped ==
    wpc = "done" =>
        /\ \A p \in MarkersWithin(max_depth) :
              <<Parent(p), UidOfName(FileName(p))>> \in PairSet
        /\ {errlog[i].path : i \in DOMAIN errlog} = ErrorNodes
        /\ Len(errlog) = Cardinality(ErrorNodes)

\* a node was reported and skipped, and a marker found after it
C17_Witness ==
    /\ wpc = "done"
    /\ \E i \in DOMAIN errlog :
          /\ errlog[i].seen < Len(pairs)
          /\ errlog[i].path # <<>>
    /\ \E p \in DOMAIN tree : tree[p].kind = "locked" /\ Children(tree, p) # {}

(***************************************************************************)
(* C18: find_entries returns exactly the immediate child directories of    *)
(* the collection directory that contain data.h5, each once: no member     *)
(* that is not a directory, no directory without data.h5, nothing from     *)
(* deeper down; the empty result when the directory itself cannot be read; *)
(* a member that raises an error is reported and left out, the others are  *)
(* not affected.                                                           *)
(***************************************************************************)
EntryDirsOf(t) ==
    {p \in DOMAIN t :
        /\ Len(p) = 1
        /\ t[p].kind = "dir"
        /\ \E q \in DOMAIN t : q = p \o <<DataH5>> /\ t[q].kind = "file"}

C18_EntryScanner ==
    wpc = "done" =>
        /\ Len(found) = Cardinality({found[i] : i \in DOMAIN found})
        /\ {found[i] : i \in DOMAIN found}
              = IF tree[<<>>].kind = "dir" THEN EntryDirsOf(tree) ELSE {}
        /\ {errlog[i].path : i \in DOMAIN errlog}
              = IF tree[<<>>].kind = "dir"
                THEN {p \in DOMAIN tree : Len(p) = 1 /\ tree[p].kind \in {"bad", "nostat"}}
                ELSE {<<>>}

\* a member raised an error, an entry beside it was returned, and a directory
\* that holds data.h5 only further down was left out
C18_Witness ==
    /\ wpc = "done"
    /\ \E i \in DOMAIN errlog, j \in DOMAIN found, p \in DOMAIN tree :
          /\ errlog[i].path # <<>>
          /\ Len(found) = 1
          /\ Len(p) = 3
          /\ FileName(p) = DataH5
          /\ SubSeq(p, 1, 1) # found[j]

(***************************************************************************)
(* C19: new_collection on a path that exists and is no directory, or is a  *)
(* directory with a member, returns an error of kind AlreadyExists or      *)
(* DirectoryNotEmpty and leaves the filesystem as it was: no marker, no    *)
(* directory made; any other failure has another kind.                     *)
(***************************************************************************)
ConflictKinds == {"AlreadyExists", "DirectoryNotEmpty"}

\* what the call found: something that is no directory, or a directory that
\* can be read and has a member
InTheWay(t, p) ==
    /\ p \in DOMAIN t
    /\ \/ t[p].kind \in {"file", "link"}
       \/ t[p].kind = "dir" /\ \E q \in DOMAIN t : Len(q) = Len(p) + 1 /\ Parent(q) = p

C19_Conflict ==
    wpc = "done" =>
        /\ InTheWay(result.before, result.path) =>
              (result.ret \in ConflictKinds /\ tree = result.before)
        /\ result.ret \in ConflictKinds => InTheWay(result.before, result.path)
        /\ result.ret = "DirectoryNotEmpty" => result.before[result.path].kind = "dir"
        /\ result.ret = "AlreadyExists" => result.before[result.path].kind # "dir"

\* the target was a directory with a marker in it: the call failed and the
\* directory is as it was
C19_Witness ==
    /\ wpc = "done"
    /\ result.ret = "DirectoryNotEmpty"
    /\ Append(result.path, MarkerX) \in DOMAIN tree
    /\ Cardinality(Children(tree, result.path)) = 1
    /\ tree = result.before
    /\ result.uid # <<"X">>

(***************************************************************************)
(* C20: new_collection on a path that does not exist, or is an empty       *)
(* directory, and that returns Ok leaves the path a directory with exactly *)
(* one member, the file named prefix + uid + ".yml", whose text is a       *)
(* document with the given uid and the creation time as a string.          *)
(* create_identifier builds the name with Path::with_extension, which      *)
(* replaces what follows the last dot of the uid.                          *)
(***************************************************************************)
Created(name) ==
    /\ result.ret = "Ok"
    /\ result.path \in DOMAIN tree
    /\ tree[result.path].kind = "dir"
    /\ Children(tree, result.path) = {Append(result.path, name)}
    /\ LET file == tree[Append(result.path, name)]
       IN /\ file.kind = "file"
          /\ from_yaml(file.text).some
          /\ from_yaml(file.text).v.uid = result.uid
          /\ \E t \in 0..now : from_yaml(file.text).v.created = local_to_rfc3339(t)
          /\ from_yaml(file.text).v.author \in Authors

C20_MarkerWritten ==
    (wpc = "done" /\ result.ret = "Ok") =>
        Created(META_FILE_PREFIX \o result.uid \o YmlSuffix)

\* C20 for the uids without a dot: this much holds
C20_PlainUids ==
    (wpc = "done" /\ result.ret = "Ok" /\ \A i \in DOMAIN result.uid : result.uid[i] # ".") =>
        /\ Created(META_FILE_PREFIX \o result.uid \o YmlSuffix)
        /\ marker_uid(META_FILE_PREFIX \o result.uid \o YmlSuffix).some
        /\ ~PathExists(result.before, result.path)
              \/ (result.before[result.path].kind = "dir"
                     /\ Children(result.before, result.path) = {})

(***************************************************************************)
(* C21: for every uid, find_all on a root that has the target within its   *)
(* depth bound, run after new_collection(path, uid) returned Ok, returns   *)
(* the pair (path, uid): the uid read from the name of the marker is the   *)
(* uid that was given, also for a uid with a dot or ending in ".yml".      *)
(***************************************************************************)
WalkReturns == wpc = "walk" /\ wpc' = "done"

C21_RoundTrip ==
    [][WalkReturns => <<result.path, result.uid>> \in PairSet']_vars

\* C21 for the uids without a dot: this much holds, and the pair is the
\* only one
C21_PlainUids ==
    [][(WalkReturns /\ \A i \in DOMAIN result.uid : result.uid[i] # ".")
          => pairs' = <<<<result.path, result.uid>>>>]_vars

\* a marker is found after every creation, whatever its uid
C21_SomePair ==
    [][WalkReturns => (Len(pairs') = 1 /\ pairs'[1][1] = result.path)]_vars

(***************************************************************************)
(* C22: every step of scan (opening the cache and discovery, listing the   *)
(* entries, reading the watermark and the mtime, decoding, the upsert, the *)
(* commit, and the end of a run by a store error) leaves the scanned tree  *)
(* as it is: the marker of every collection directory, and every result    *)
(* container with its content and its modification time.                   *)
(***************************************************************************)
ScanStep ==
    \/ \E r \in {"ok", "open", "begin"} : ScanStart(r)
    \/ \E ok \in BOOLEAN : ScanCollection(ok)
    \/ ScanEntry
    \/ ScanDecode
    \/ \E ok \in BOOLEAN, t \in Clock : ScanUpsert(ok, t)
    \/ \E ok \in BOOLEAN : ScanCommit(ok)
    \/ Terminate

C22_ScanReadsOnly == [][ScanStep => (fs' = fs /\ uidOf' = uidOf)]_vars

\* a run decoded containers, wrote their rows and committed, and nothing
\* in the tree changed meanwhile
C22_Witness ==
    /\ pc = "done"
    /\ fault = "none"
    /\ ~dirty
    /\ writes = 0
    /\ Len(db.simulations) = 3
    /\ \A e \in EntryDirs : fs[e].exists /\ fs[e].mtime = 0

(***************************************************************************)
(* C23: after the first scan, on an empty cache, that ran to its commit,   *)
(* the collections table holds exactly one (uid, path) row per discovered  *)
(* uid, with the path of a directory holding a marker of that uid, and for *)
(* every discovered entry whose container decodes there is exactly one row *)
(* (uid, entry name), holding the decoded created_at, description, status, *)
(* submitted and parameters.                                               *)
(***************************************************************************)
FirstScanDone == pc = "done" /\ fault = "none" /\ scans = 1

\* ls_collections: SELECT uid, path FROM collections
ls_collections(store) ==
    [i \in DOMAIN store.collections |-> <<store.collections[i].uid, store.collections[i].path>>]

CollectionsListed ==
    /\ Len(ls_collections(db)) = Cardinality({uidOf[d] : d \in Dirs})
    /\ {ls_collections(db)[i] : i \in DOMAIN db.collections} =
          {<<uidOf[d], LastDirOf(uidOf[d])>> : d \in Dirs}

KeyOf(e) == <<uidOf[e[1]], e[2]>>

\* the entry directories find_entries lists whose container decodes
Decodable == {e \in EntryDirs : fs[e].exists /\ load_entry_meta(fs[e].content).some}

\* another discovered entry has the key of e
Shared(e) == \E o \in EntryDirs : o # e /\ KeyOf(o) = KeyOf(e)

RowCount(store, k) ==
    Cardinality({i \in DOMAIN store.simulations : IsKey(store.simulations[i], k[1], k[2])})

\* the one row of the key of e holds what the container of e decodes to
RowHolds(e) ==
    /\ RowCount(db, KeyOf(e)) = 1
    /\ Content(RowOf(db, KeyOf(e)[1], KeyOf(e)[2])) = ContentOf(load_entry_meta(fs[e].content))

\* C23 as stated: one row per decodable entry, with the values of that entry
C23_EveryEntryCached ==
    (FirstScanDone /\ ~dirty) =>
        /\ CollectionsListed
        /\ \A e \in Decodable : RowHolds(e)

\* C23 amended: the row of a key that two discovered entries share (two
\* directories declaring one uid) holds the values of one of them; while
\* the tree changes under the run, the rows are those the run decoded
C23_EveryKeyCached ==
    FirstScanDone =>
        /\ CollectionsListed
        /\ \A i \in Finished : log[i].outcome # "skipped" \/ Shared(<<log[i].dir, log[i].name>>)
        /\ \A i \in Finished :
              (log[i].outcome = "synced" /\ LastSynced(i)) =>
                  /\ RowCount(db, <<log[i].uid, log[i].name>>) = 1
                  /\ Content(RowOf(db, log[i].uid, log[i].name)) = ContentOf(log[i].data)
        /\ Keys(db) = {<<log[i].uid, log[i].name>> : i \in {j \in Finished : log[j].outcome = "synced"}}
        /\ ~dirty =>
              /\ \A e \in Decodable : ~Shared(e) => RowHolds(e)
              /\ \A e \in Decodable : \E o \in Decodable : KeyOf(o) = KeyOf(e) /\ RowHolds(o)
              /\ Keys(db) = {KeyOf(e) : e \in Decodable}

\* the scenario of the specification: one row for run1 of collection A, with
\* status "done", submitted true and the parameter steps = 100
C23_Witness ==
    /\ FirstScanDone
    /\ ~dirty
    /\ uidOf["R/d2"] = "B"
    /\ <<"A", "R/d1">> \in {ls_collections(db)[i] : i \in DOMAIN db.collections}
    /\ RowCount(db, <<"A", "run1">>) = 1
    /\ RowOf(db, "A", "run1").status = "done"
    /\ RowOf(db, "A", "run1").submitted = 1
    /\ JsonObject(RowOf(db, "A", "run1").parameters_json)["steps"] = [t |-> "int", v |-> "100"]
    /\ Len(db.simulations) = 3

(***************************************************************************)
(* C24: when the mtime of an entry's container rose since the last scan    *)
(* while its content stayed what the row of the entry holds, the next scan *)
(* that commits leaves that row with the same created_at, description,     *)
(* status, submitted and parameters, and the key (collection_uid, name)    *)
(* still has one row.                                                      *)
(***************************************************************************)
\* the container of e was touched since the last run: its mtime rose, and it
\* decodes to what the row of e held when this run began
Touched(e) ==
    /\ e \in changed
    /\ fs[e].exists
    /\ load_entry_meta(fs[e].content).some
    /\ HasRow(dbAtStart, KeyOf(e)[1], KeyOf(e)[2])
    /\ Content(RowOf(dbAtStart, KeyOf(e)[1], KeyOf(e)[2])) =
          ContentOf(load_entry_meta(fs[e].content))

CommitStep == pc = "commit" /\ pc' = "done" /\ fault' = "none"

RowKept(e) ==
    /\ RowCount(db', KeyOf(e)) = 1
    /\ Content(RowOf(db', KeyOf(e)[1], KeyOf(e)[2])) =
          Content(RowOf(dbAtStart, KeyOf(e)[1], KeyOf(e)[2]))

C24_TouchKeepsRow ==
    [][CommitStep => \A e \in EntryDirs : Touched(e) => RowKept(e)]_vars

\* C24 for an entry whose key no other discovered entry has
C24_TouchKeepsOwnRow ==
    [][CommitStep => \A e \in EntryDirs : (Touched(e) /\ ~Shared(e)) => RowKept(e)]_vars

\* a touched container was decoded again by the second run and its row
\* rewritten with the content it had
C24_Witness ==
    /\ pc = "commit"
    /\ scans = 2
    /\ fault = "none"
    /\ Touched(<<"R/d1", "run1">>)
    /\ ~Shared(<<"R/d1", "run1">>)
    /\ \E i \in Finished :
          /\ log[i].dir = "R/d1" /\ log[i].name = "run1"
          /\ log[i].outcome = "synced"
          /\ log[i].mtime.v > 0
    /\ RowCount(tx, <<"A", "run1">>) = 1
    /\ Content(RowOf(tx, "A", "run1")) = Content(RowOf(dbAtStart, "A", "run1"))
    /\ RowOf(tx, "A", "run1").last_sync_time # RowOf(dbAtStart, "A", "run1").last_sync_time

(***************************************************************************)
(* C25: ls_params(cache, collection) prints one line for each parameter    *)
(* key that a cached row of that collection has, no key twice and no other *)
(* key (none that only rows of other collections have); the example of a   *)
(* key is the text of its value in the first row having the key, in the    *)
(* order in which the query returned the rows.                             *)
(***************************************************************************)
RowsOf(collection) ==
    {i \in DOMAIN db.simulations : db.simulations[i].collection_uid = collection}

ParamsOfRow(i) == JsonObject(db.simulations[i].parameters_json)

\* the first row of the query result that has key k
FirstWith(k) ==
    result.rows[CHOOSE i \in DOMAIN result.rows :
                   /\ k \in DOMAIN ParamsOfRow(result.rows[i])
                   /\ \A j \in 1..(i - 1) : k \notin DOMAIN ParamsOfRow(result.rows[j])]

C25_ParameterKeys ==
    wpc = "done" =>
        /\ {result.rows[i] : i \in DOMAIN result.rows} = RowsOf(result.collection)
        /\ {result.printed[i][1] : i \in DOMAIN result.printed} =
              UNION {DOMAIN ParamsOfRow(i) : i \in RowsOf(result.collection)}
        /\ \A i, j \in DOMAIN result.printed :
              result.printed[i][1] = result.printed[j][1] => i = j
        /\ \A i \in DOMAIN result.printed :
              result.printed[i][2] =
                  value_to_string(ParamsOfRow(FirstWith(result.printed[i][1]))[result.printed[i][1]])

\* two rows of the collection have the key steps with different values and
\* the query returned the younger row first; a row of the other collection
\* has another value for dt; the examples are those of the rows read first
C25_Witness ==
    /\ wpc = "done"
    /\ Len(result.rows) = 2
    /\ result.rows[1] > result.rows[2]
    /\ ParamsOfRow(result.rows[1]) = load_entry_meta(Good2).params
    /\ ParamsOfRow(result.rows[2]) = load_entry_meta(Good1).params
    /\ \E i \in DOMAIN db.simulations :
          /\ i \notin RowsOf(result.collection)
          /\ ParamsOfRow(i) = load_entry_meta(Good3).params
    /\ {result.printed[i] : i \in DOMAIN result.printed} =
          {<<"steps", "200">>, <<"dt", "\"fast\"">>}

(***************************************************************************)
(* C26: the decoder probes a parameter attribute as integer, then float,   *)
(* then string, and takes the first read that succeeds: an attribute that  *)
(* reads as an integer is decoded as that integer also when it reads as a  *)
(* float (or a string) too, and decoding the same container twice gives    *)
(* the same types and values.                                              *)
(***************************************************************************)
Decoded == wpc = "done" /\ result.first.some

Attrs == result.container.attrs

C26_ProbeOrder ==
    /\ wpc = "done" => result.second = result.first
    /\ Decoded =>
          \A k \in DOMAIN Attrs :
              /\ Attrs[k].i64.some =>
                    (k \in DOMAIN result.first.params
                        /\ result.first.params[k] = [t |-> "int", v |-> Attrs[k].i64.v])
              /\ (~Attrs[k].i64.some /\ Attrs[k].f64.some) =>
                    (k \in DOMAIN result.first.params
                        /\ result.first.params[k] = [t |-> "float", v |-> Attrs[k].f64.v])
              /\ (~Attrs[k].i64.some /\ ~Attrs[k].f64.some /\ Attrs[k].str.some) =>
                    (k \in DOMAIN result.first.params
                        /\ result.first.params[k] = [t |-> "str", v |-> Attrs[k].str.v])

\* one attribute reads as integer and as float and is decoded as integer,
\* another reads as float only and is decoded as float
C26_Witness ==
    /\ Decoded
    /\ DOMAIN Attrs = ParamNames
    /\ Attrs["steps"].i64.some /\ Attrs["steps"].f64.some
    /\ result.first.params["steps"] = [t |-> "int", v |-> "100"]
    /\ ~Attrs["dt"].i64.some /\ Attrs["dt"].f64.some
    /\ result.first.params["dt"].t = "float"
    /\ result.second = result.first

(***************************************************************************)
(* C27: a parameter attribute that reads neither as integer nor as float   *)
(* nor as string is dropped and is no error: a container whose required    *)
(* attributes read is decoded all the same, to what it would decode to     *)
(* without that attribute, and its parameter mapping holds exactly the     *)
(* attributes that some probe reads.                                       *)
(***************************************************************************)
\* no probe reads the attribute
Unsupported(a) == a.present /\ ~a.i64.some /\ ~a.f64.some /\ ~a.str.some

Supported(a) == a.present /\ (a.i64.some \/ a.f64.some \/ a.str.some)

\* everything the decoder insists on can be read
Sound(c) ==
    /\ c.open
    /\ ReadStr(c.created_at).some
    /\ ReadStr(c.description).some
    /\ ReadStr(c.status).some
    /\ c.group
    /\ \A k \in DOMAIN c.attrs : c.attrs[k].present

\* the container without the attributes no probe reads
WithoutUnsupported(c) ==
    [c EXCEPT !.attrs = [k \in {j \in DOMAIN c.attrs : ~Unsupported(c.attrs[j])} |-> c.attrs[k]]]

C27_UnsupportedDropped ==
    (wpc = "done" /\ Sound(result.container)) =>
        /\ result.first.some
        /\ DOMAIN result.first.params = {k \in DOMAIN Attrs : Supported(Attrs[k])}
        /\ result.first = load_entry_meta(WithoutUnsupported(result.container))

\* of two parameter attributes one is read by no probe: the entry is decoded
\* with the other one alone
C27_Witness ==
    /\ Decoded
    /\ DOMAIN Attrs = ParamNames
    /\ Unsupported(Attrs["dt"])
    /\ Supported(Attrs["steps"])
    /\ DOMAIN result.first.params = {"steps"}
    /\ result.first.meta.description = "first run"

(***************************************************************************)
(* C28: field-level recovery of the decoder.  When created_at is present   *)
(* and reads as a string that is no valid tagged datetime (no JSON          *)
(* envelope, a type tag other than "datetime", or a value that parses      *)
(* neither as it is nor with "Z" appended), the entry is decoded with      *)
(* created_at at the epoch; when submitted is absent or does not read as a *)
(* bool, the entry is decoded with submitted = false.  Neither makes the   *)
(* decoder give the entry up.                                              *)
(***************************************************************************)
\* the text of created_at is a tagged datetime
ValidDatetime(val) ==
    /\ val.json
    /\ val.type = "datetime"
    /\ parse_from_rfc3339(val.value).some \/ parse_from_rfc3339(val.value \o "Z").some

C28_FieldRecovery ==
    (wpc = "done" /\ Sound(result.container)) =>
        LET c == result.container
            text == ReadStr(c.created_at).v
        IN /\ result.first.some
           /\ ~ValidDatetime(text) => result.first.meta.created_at = 0
           /\ ValidDatetime(text) => result.first.meta.created_at = 1704067200
           /\ (~c.submitted.present \/ ~c.submitted.bool.some) =>
                 result.first.meta.submitted = FALSE
           /\ (c.submitted.present /\ c.submitted.bool.some) =>
                 result.first.meta.submitted = c.submitted.bool.v
           /\ (errlog # <<>>) = ~ValidDatetime(text)

\* a created_at tagged "date" and a submitted attribute that is a string: the
\* entry is decoded with the epoch and false, the rest as stored
C28_Witness ==
    /\ Decoded
    /\ ReadStr(result.container.created_at).v = Tagged("date", "2024-01-01T00:00:00Z")
    /\ result.container.submitted = StrAttr("yes")
    /\ result.first.meta.created_at = 0
    /\ utc_to_rfc3339(result.first.meta.created_at) = "1970-01-01T00:00:00+00:00"
    /\ result.first.meta.submitted = FALSE
    /\ result.first.meta.description = "first run"
    /\ Len(errlog) = 2

(***************************************************************************)
(* C29: when an external writer modifies the container of an entry while a *)
(* scan runs, after the mtime of the entry was read or its attributes were *)
(* decoded and before its row is written, a later scan during which        *)
(* nothing is modified decodes the entry again: once that scan has         *)
(* committed, the row of the entry holds what the container holds.         *)
(* Checked for the entries whose key no other discovered entry has.        *)
(* upsert_simulation stamps the row with the time of the write             *)
(* (db.rs:102-111), not with the mtime that was read, so a container       *)
(* modified between its decoding and that write is older than the          *)
(* watermark of its row and the later scan skips it.                       *)
(***************************************************************************)
\* a run has committed during which nothing in the tree changed
QuietScanDone == pc = "done" /\ fault = "none" /\ stable >= 1

C29_LaterScanCatchesUp ==
    QuietScanDone => \A e \in Decodable : ~Shared(e) => RowHolds(e)

(***************************************************************************)
(* C30: when two discovered directories declare one uid and each holds an  *)
(* entry directory of the same name, then after a scan that committed, the *)
(* tree never having been modified, the one row of (uid, name) holds what  *)
(* is decoded from the entry under the directory that the collections      *)
(* table names as the path of the uid.                                     *)
(* The second of the two entries is compared with the watermark that the   *)
(* write of the first has just left in the row of their key                *)
(* (api/mod.rs:165-177) and is skipped when the clock has moved on.        *)
(***************************************************************************)
\* the collections table names the directory of e as the path of its uid
UnderStoredPath(e) ==
    \E i \in DOMAIN db.collections :
        db.collections[i] = [uid |-> KeyOf(e)[1], path |-> e[1]]

C30_RowFollowsPath ==
    (pc = "done" /\ fault = "none" /\ writes = 0) =>
        \A e \in Decodable : (Shared(e) /\ UnderStoredPath(e)) => RowHolds(e)

\* the row of a shared key holds the values of one of the entries that
\* have the key: this much holds
C30_RowOfSomeEntry ==
    (pc = "done" /\ fault = "none" /\ writes = 0) =>
        \A e \in Decodable :
            Shared(e) => \E o \in Decodable : KeyOf(o) = KeyOf(e) /\ RowHolds(o)

(***************************************************************************)
(* C31: when load_entry_meta fails for an entry during scan, nothing is    *)
(* written: a row the entry has stays as it is, content and last_sync_time *)
(* alike; and an entry that has a row and whose mtime is not below the     *)
(* watermark of that row is not skipped by a later scan but decoded again. *)
(***************************************************************************)
\* this step is load_entry_meta returning None
DecodeFails == DecodeStep /\ ~ReadEntry(fs[CurEntry]).some

\* no line of the history of this run wrote the row of the key of line i
NotWritten(i) ==
    \A j \in Finished : SameKey(log[i], log[j]) => log[j].outcome # "synced"

C31_FailedDecodeKeepsRow ==
    /\ [][DecodeFails => (tx' = tx /\ db' = db /\ pc' # "upsert")]_vars
    /\ [][(ProbeStep /\ last_sync_time'.some /\ mtime'.some
              /\ mtime'.v >= last_sync_time'.v) => pc' = "decode"]_vars
    /\ []((pc = "done" /\ fault = "none") =>
             \A i \in Finished :
                 (log[i].outcome = "failed" /\ HasRow(dbAtStart, log[i].uid, log[i].name)
                     /\ NotWritten(i)) =>
                     /\ HasRow(db, log[i].uid, log[i].name)
                     /\ RowOf(db, log[i].uid, log[i].name) =
                           RowOf(dbAtStart, log[i].uid, log[i].name))

\* the container of a cached entry was replaced by one that does not decode:
\* the second run tried it, failed, and committed with the row as it was
C31_Witness ==
    /\ pc = "done"
    /\ fault = "none"
    /\ scans = 2
    /\ \E i \in Finished :
          /\ log[i].outcome = "failed"
          /\ log[i].watermark.some
          /\ log[i].mtime.v >= log[i].watermark.v
          /\ NotWritten(i)
          /\ HasRow(db, log[i].uid, log[i].name)
          /\ RowOf(db, log[i].uid, log[i].name) = RowOf(dbAtStart, log[i].uid, log[i].name)
          /\ RowOf(db, log[i].uid, log[i].name).description = "first run"

(***************************************************************************)
(* C32: referential integrity.  In the cache file, and in the store as the *)
(* open transaction sees it, the collection_uid of every row of            *)
(* simulations is the uid of a row of collections: scan upserts the        *)
(* collection before it writes an entry of it, and deletes no uid.         *)
(***************************************************************************)
CollectionUids(store) == {store.collections[i].uid : i \in DOMAIN store.collections}

Referenced(store) ==
    \A i \in DOMAIN store.simulations :
        store.simulations[i].collection_uid \in CollectionUids(store)

C32_ReferentialIntegrity ==
    /\ [](Referenced(db) /\ Referenced(tx))
    /\ [][UpsertStep => CurUid \in CollectionUids(tx)]_vars

\* two runs committed rows of entries of two collections
C32_Witness ==
    /\ pc = "done"
    /\ fault = "none"
    /\ scans = 2
    /\ CollectionUids(db) = {"A", "B"}
    /\ {db.simulations[i].collection_uid : i \in DOMAIN db.simulations} = {"A", "B"}
    /\ Len(db.simulations) = 3

(***************************************************************************)
(* C33: scan deletes no row.  No step takes a key (collection_uid, name)   *)
(* or a uid out of the cache file, and inside a transaction none is taken  *)
(* out of the store either; a row that a run did not write is, after the   *)
(* run has committed, what it was before, also when the container of its   *)
(* entry is gone from the filesystem.                                      *)
(***************************************************************************)
\* the keys a line of the history of this run wrote
WrittenKeys == {<<log[i].uid, log[i].name>> : i \in {j \in Finished : log[j].outcome = "synced"}}

Grows(old, new) ==
    /\ Keys(old) \subseteq Keys(new)
    /\ CollectionUids(old) \subseteq CollectionUids(new)

C33_NothingDeleted ==
    /\ [][Grows(db, db')]_vars
    /\ [][(pc \in Running /\ pc' \in Running) => Grows(tx, tx')]_vars
    /\ []((pc = "done" /\ fault = "none") =>
             /\ Grows(dbAtStart, db)
             /\ \A k \in Keys(dbAtStart) \ WrittenKeys :
                    RowOf(db, k[1], k[2]) = RowOf(dbAtStart, k[1], k[2]))

\* the container of a cached entry was removed: the next run committed and
\* the row of the entry is as it was
C33_Witness ==
    /\ pc = "done"
    /\ fault = "none"
    /\ scans = 2
    /\ ~fs[<<"R/d1", "run2">>].exists
    /\ HasRow(db, "A", "run2")
    /\ HasRow(dbAtStart, "A", "run2")
    /\ RowOf(db, "A", "run2") = RowOf(dbAtStart, "A", "run2")
    /\ <<"A", "run2">> \notin WrittenKeys
    /\ Len(db.simulations) = 3

(***************************************************************************)
(* C34: the id of the row of a key (collection_uid, name) does not change  *)
(* once the row is in the cache: upsert_simulation on a key that has a row *)
(* leaves the id of the row, and returns it; no step changes the id of a   *)
(* row of the cache file; rows of distinct keys have distinct ids.         *)
(***************************************************************************)
DistinctIds(store) ==
    \A i, j \in DOMAIN store.simulations :
        store.simulations[i].id = store.simulations[j].id => i = j

IdsKept(old, new) ==
    \A k \in Keys(old) \cap Keys(new) : RowOf(new, k[1], k[2]).id = RowOf(old, k[1], k[2]).id

C34_StableIds ==
    /\ [](DistinctIds(db) /\ DistinctIds(tx))
    /\ [][IdsKept(db, db')]_vars
    /\ [][(UpsertStep /\ HasRow(tx, CurUid, CurEntry[2])) =>
              /\ RowOf(tx', CurUid, CurEntry[2]).id = RowOf(tx, CurUid, CurEntry[2]).id
              /\ log'[Len(log')].id = RowOf(tx, CurUid, CurEntry[2]).id]_vars
    /\ [][UpsertStep => IdsKept(tx, tx')]_vars

\* the second run wrote the row of a key again: the row has the id the first
\* run gave it, next to rows with other ids
C34_Witness ==
    /\ pc = "done"
    /\ fault = "none"
    /\ scans = 2
    /\ Len(db.simulations) = 3
    /\ \E i \in Finished :
          /\ log[i].outcome = "synced"
          /\ HasRow(dbAtStart, log[i].uid, log[i].name)
          /\ log[i].id = RowOf(dbAtStart, log[i].uid, log[i].name).id
          /\ log[i].id = RowOf(db, log[i].uid, log[i].name).id
          /\ log[i].id = 1
          /\ RowOf(db, log[i].uid, log[i].name).last_sync_time #
                RowOf(dbAtStart, log[i].uid, log[i].name).last_sync_time

(***************************************************************************)
(* C35: load_entry_meta returns None for a container that has every        *)
(* required metadata attribute but no ".parameters" group, and for one     *)
(* with an attribute of that group that cannot be opened; scan, given      *)
(* None, takes the arm that writes no row (C31).  Whatever is decoded has  *)
(* the group and every attribute of it opened: an entry without the group  *)
(* is never decoded with an empty parameter mapping.                       *)
(***************************************************************************)
\* the required metadata attributes of the container read
MetadataReads(c) ==
    /\ c.open
    /\ ReadStr(c.created_at).some
    /\ ReadStr(c.description).some
    /\ ReadStr(c.status).some

\* an attribute of the group is listed but cannot be opened
SomeAttrUnopened(c) == \E k \in DOMAIN c.attrs : ~c.attrs[k].present

\* the container as the file scan reads it
AsFile(c) == [exists |-> TRUE, mtime |-> 0, content |-> c]

C35_ParametersRequired ==
    wpc = "done" =>
        LET c == result.container
        IN /\ (MetadataReads(c) /\ (~c.group \/ SomeAttrUnopened(c))) =>
                 (~result.first.some /\ ~ReadEntry(AsFile(c)).some)
           /\ result.first.some => (c.group /\ ~SomeAttrUnopened(c))
           /\ (MetadataReads(c) /\ c.group /\ ~SomeAttrUnopened(c)) => result.first.some

\* the metadata reads and one of two parameter attributes is a good integer,
\* the other cannot be opened: the entry is not decoded
C35_Witness ==
    /\ wpc = "done"
    /\ MetadataReads(result.container)
    /\ result.container.group
    /\ DOMAIN Attrs = ParamNames
    /\ Attrs["steps"].i64.some
    /\ ~Attrs["dt"].present
    /\ ~result.first.some
    /\ errlog = <<>>

\* the metadata reads and there is no ".parameters" group: not decoded
C35_WitnessNoGroup ==
    /\ wpc = "done"
    /\ MetadataReads(result.container)
    /\ ~result.container.group
    /\ ~result.first.some

(***************************************************************************)
(* C36: a scan that has begun and meets no store error (and is not         *)
(* terminated) comes to its end, committed; at that end every collection   *)
(* pair of find_all has its row, the entry directories that find_entries   *)
(* listed had their turn exactly once each and in the order of the         *)
(* listing, collection after collection in the order of find_all, and      *)
(* every container that was there throughout the run had its turn.         *)
(***************************************************************************)
ListedLines == SelectSeq(log, LAMBDA l : l.outcome = "listed")

FinishedLines == SelectSeq(log, LAMBDA l : l.outcome # "listed")

\* the place of a collection directory in the order of find_all
PlaceOf(d) == CHOOSE i \in DOMAIN find_all(uidOf) : find_all(uidOf)[i][1] = d

Completed == pc = "done" /\ fault = "none"

InDiscoveryOrder ==
    /\ \A i \in DOMAIN find_all(uidOf) : find_all(uidOf)[i][2] \in CollectionUids(db)
    /\ Len(FinishedLines) = Len(ListedLines)
    /\ \A i \in DOMAIN ListedLines :
          /\ SameEntry(ListedLines[i], FinishedLines[i])
          /\ ListedLines[i].uid = FinishedLines[i].uid
          /\ <<ListedLines[i].dir, ListedLines[i].uid>> \in
                 {find_all(uidOf)[j] : j \in DOMAIN find_all(uidOf)}
    /\ \A i, j \in DOMAIN FinishedLines :
          i < j => \/ PlaceOf(FinishedLines[i].dir) < PlaceOf(FinishedLines[j].dir)
                   \/ /\ FinishedLines[i].dir = FinishedLines[j].dir
                      /\ \E a, b \in DOMAIN NameOrder :
                            /\ a < b
                            /\ NameOrder[a] = FinishedLines[i].name
                            /\ NameOrder[b] = FinishedLines[j].name
    /\ \A e \in EntryDirs :
          /\ Cardinality(LinesOf(e)) <= 1
          /\ (~dirty /\ fs[e].exists) => Cardinality(LinesOf(e)) = 1

C36_ScanTerminates ==
    /\ (pc \in Running) ~> (Completed \/ fault # "none")
    /\ [](Completed => InDiscoveryOrder)

\* a second run came to its end, committed, after three entries in two
\* collection directories had their turn
C36_Witness ==
    /\ Completed
    /\ scans = 2
    /\ Len(FinishedLines) = 3
    /\ \E i, j \in DOMAIN FinishedLines : FinishedLines[i].dir # FinishedLines[j].dir
    /\ db = tx

====
